---- MODULE Spec2Model ----
(***************************************************************************)
(* clickhouse-migrations: the migration catalog (getMigrations) and the    *)
(* migration executor (applyMigrations) of src/src/executor.ts, run        *)
(* against a ledger table held by an external database client.             *)
(*                                                                         *)
(* Strings of the program are sequences of one-character strings, so that  *)
(* the filename handling of getMigrations (endsWith, split, parseInt, the   *)
(* VERSION_STRING pattern) is computed character by character.             *)
(***************************************************************************)
EXTENDS Integers, Sequences, FiniteSets, TLC

(***************************************************************************)
(* Bounds of the model.                                                    *)
(***************************************************************************)
\* number of migration files of the executor's directory
MaxFiles == 3
\* number of runs of runMigration in one behaviour
MaxRuns == 2
\* number of changes made to the directory between runs
MaxEnvSteps == 1
\* longest directory listing handed to getMigrations in SpecDiscovery
MaxListing == 3
\* number of tokens a migration file handed to the parser is made of
MaxTokens == 3

(***************************************************************************)
(* Characters and strings.                                                 *)
(***************************************************************************)
Digits == <<"0", "1", "2", "3", "4", "5", "6", "7", "8", "9">>

IsDigit(ch) == \E d \in 1..Len(Digits) : Digits[d] = ch

DigitValue(ch) == (CHOOSE d \in 1..Len(Digits) : Digits[d] = ch) - 1

\* the white space String.prototype.trim and parseInt skip
IsSpace(ch) == ch \in {" ", "\t", "\n", "\r"}

\* String.prototype.endsWith
EndsWith(s, suffix) ==
    /\ Len(s) >= Len(suffix)
    /\ SubSeq(s, Len(s) - Len(suffix) + 1, Len(s)) = suffix

DotSql == <<".", "s", "q", "l">>

\* file.split('_')[0]: the text before the first underscore, the whole
\* string when it has none
SplitFirst(s, sep) ==
    IF \E i \in 1..Len(s) : s[i] = sep
    THEN SubSeq(s, 1, (CHOOSE i \in 1..Len(s) :
                          s[i] = sep /\ \A j \in 1..(i - 1) : s[j] # sep) - 1)
    ELSE s

\* the result of parseInt: a number, or NaN
NaN == [isNaN |-> TRUE, value |-> 0]

Num(n) == [isNaN |-> FALSE, value |-> n]

\* the value of a run of digits, most significant first
RECURSIVE DigitsValue(_)
DigitsValue(s) ==
    IF s = <<>> THEN 0
    ELSE 10 * DigitsValue(SubSeq(s, 1, Len(s) - 1)) + DigitValue(s[Len(s)])

\* the longest prefix of s made of digits only
RECURSIVE DigitPrefix(_)
DigitPrefix(s) ==
    IF s = <<>> \/ ~IsDigit(Head(s)) THEN <<>>
    ELSE <<Head(s)>> \o DigitPrefix(Tail(s))

RECURSIVE SkipSpace(_)
SkipSpace(s) ==
    IF s # <<>> /\ IsSpace(Head(s)) THEN SkipSpace(Tail(s)) ELSE s

\* Number.parseInt(s, 10): leading white space skipped, an optional sign,
\* then the longest run of digits; NaN when there is no digit
ParseInt(s) ==
    LET t == SkipSpace(s)
        neg == t # <<>> /\ Head(t) = "-"
        u == IF t # <<>> /\ Head(t) \in {"-", "+"} THEN Tail(t) ELSE t
        ds == DigitPrefix(u)
    IN  IF ds = <<>> THEN NaN
        ELSE IF neg THEN Num(0 - DigitsValue(ds)) ELSE Num(DigitsValue(ds))

\* VALIDATION_PATTERNS.VERSION_STRING = /^\d+$/
VersionStringTest(s) == s # <<>> /\ \A i \in 1..Len(s) : IsDigit(s[i])

(***************************************************************************)
(* getMigrations                                                           *)
(***************************************************************************)
\* Array.prototype.sort((m1, m2) => m1.version - m2.version): a stable sort,
\* ascending by version
RECURSIVE InsertByVersion(_, _)
InsertByVersion(sorted, m) ==
    IF sorted = <<>> THEN <<m>>
    ELSE IF Head(sorted).version - m.version <= 0
         THEN <<Head(sorted)>> \o InsertByVersion(Tail(sorted), m)
         ELSE <<m>> \o sorted

\* a slip: the list is returned in listing order
SortByVersionOmitted(ms) == ms

RECURSIVE SortByVersion(_)
SortByVersion(ms) ==
    IF ms = <<>> THEN <<>>
    ELSE InsertByVersion(SortByVersion(SubSeq(ms, 1, Len(ms) - 1)), ms[Len(ms)])

InvalidName(file) == [kind |-> "InvalidMigrationName", file |-> file]

\* the loop over the directory listing: the migrations collected from the
\* .sql files, or the error thrown at the first invalid name
RECURSIVE CollectMigrations(_, _)
CollectMigrations(files, acc) ==
    IF files = <<>> THEN [ok |-> TRUE, migrations |-> acc]
    ELSE LET file == Head(files)
             versionString == SplitFirst(file, "_")
             version == ParseInt(versionString)
         IN  IF ~EndsWith(file, DotSql)
             THEN CollectMigrations(Tail(files), acc)
             ELSE IF versionString = <<>>
             THEN [ok |-> FALSE, error |-> InvalidName(file)]
             ELSE IF \/ version.isNaN
                     \/ version.value < 0
                     \/ ~VersionStringTest(versionString)
             THEN [ok |-> FALSE, error |-> InvalidName(file)]
             ELSE CollectMigrations(Tail(files),
                                    Append(acc, [version |-> version.value,
                                                 file |-> file]))

\* a slip: the scan compares the file names
DuplicateAtSameFile(ms) ==
    {i \in 2..Len(ms) : ms[i].file = ms[i - 1].file}

\* the scan of adjacent pairs of the sorted list for equal versions
DuplicateAt(ms) ==
    {i \in 2..Len(ms) : ms[i].version = ms[i - 1].version}

Min(S) == CHOOSE x \in S : \A y \in S : x <= y

\* getMigrations on the listing readdir returned
GetMigrations(listing) ==
    LET collected == CollectMigrations(listing, <<>>)
    IN  IF ~collected.ok THEN collected
        ELSE IF Len(collected.migrations) = 0
        THEN [ok |-> FALSE, error |-> [kind |-> "NoMigrations"]]
        ELSE LET sorted == SortByVersion(collected.migrations)
                 dups == DuplicateAt(sorted)
             IN  IF dups # {}
                 THEN LET i == Min(dups)
                      IN  [ok |-> FALSE,
                           error |-> [kind |-> "DuplicateVersion",
                                      version |-> sorted[i].version,
                                      previous |-> sorted[i - 1].file,
                                      current |-> sorted[i].file]]
                 ELSE [ok |-> TRUE, migrations |-> sorted]

(***************************************************************************)
(* sql-parse.ts.  A parser of the pool is handed out reset, so every scan   *)
(* starts from the state reset gives.                                      *)
(***************************************************************************)
\* what indexing a string past its end gives
Undefined == "undefined"

CharAt(s, i) == IF i \in 1..Len(s) THEN s[i] ELSE Undefined

\* String.prototype.trim
RECURSIVE TrimStart(_)
TrimStart(s) == IF s # <<>> /\ IsSpace(Head(s)) THEN TrimStart(Tail(s)) ELSE s

RECURSIVE TrimEnd(_)
TrimEnd(s) ==
    IF s # <<>> /\ IsSpace(s[Len(s)]) THEN TrimEnd(SubSeq(s, 1, Len(s) - 1)) ELSE s

Trim(s) == TrimEnd(TrimStart(s))

\* the grave accent (U+0060), which a TLA+ string cannot hold
Backquote == "backquote"

\* the characters that open a string literal
Quotes == {"'", "\"", Backquote}

\* SqlParser.reset: the state of a parser handed out by the pool
reset == [inString |-> FALSE, stringChar |-> "", escaped |-> FALSE]

\* a slip: a delimiter inside a literal always ends it
processCharNoDoubledQuote(parser, ch, content, index) ==
    IF parser.inString
    THEN [result |-> TRUE,
          parser |->
              IF parser.escaped THEN [parser EXCEPT !.escaped = FALSE]
              ELSE IF ch = "\\" THEN [parser EXCEPT !.escaped = TRUE]
              ELSE IF ch = parser.stringChar
                   THEN [parser EXCEPT !.inString = FALSE, !.stringChar = ""]
                   ELSE parser]
    ELSE IF ch \in Quotes
         THEN [result |-> TRUE,
               parser |-> [parser EXCEPT !.inString = TRUE, !.stringChar = ch]]
         ELSE [result |-> FALSE, parser |-> parser]

\* SqlParser.processChar: the parser after the character at index, and the
\* value returned (the character belongs to a string literal)
processChar(parser, ch, content, index) ==
    IF parser.inString
    THEN [result |-> TRUE,
          parser |->
              IF parser.escaped THEN [parser EXCEPT !.escaped = FALSE]
              ELSE IF ch = "\\" THEN [parser EXCEPT !.escaped = TRUE]
              ELSE IF ch = parser.stringChar
                   THEN IF CharAt(content, index + 1) = parser.stringChar
                        THEN [parser EXCEPT !.escaped = TRUE]
                        ELSE [parser EXCEPT !.inString = FALSE, !.stringChar = ""]
                   ELSE parser]
    ELSE IF ch \in Quotes
         THEN [result |-> TRUE,
               parser |-> [parser EXCEPT !.inString = TRUE, !.stringChar = ch]]
         ELSE [result |-> FALSE, parser |-> parser]

\* the scan for the end of a block comment, from index j on, with a parser
\* of its own: the index of the * of the first terminator outside the quoted
\* regions of the comment, or an index past the end when there is none
RECURSIVE CommentEnd(_, _, _)
CommentEnd(content, j, commentParser) ==
    IF j > Len(content) THEN j
    ELSE LET after == processChar(commentParser, content[j], content, j).parser
         IN  IF ~after.inString /\ content[j] = "*" /\ CharAt(content, j + 1) = "/"
             THEN j
             ELSE CommentEnd(content, j + 1, after)

\* the loop of removeBlockComments from index i on
RECURSIVE BlockScan(_, _, _, _)
BlockScan(content, i, parser, result) ==
    IF i > Len(content) THEN result
    ELSE LET step == processChar(parser, content[i], content, i)
         IN  IF step.result
             THEN BlockScan(content, i + 1, step.parser, Append(result, content[i]))
             ELSE IF content[i] = "/" /\ CharAt(content, i + 1) = "*"
             THEN LET j == CommentEnd(content, i + 2, reset)
                  IN  IF j > Len(content)
                      THEN result
                      ELSE BlockScan(content, j + 2, step.parser, result)
             ELSE BlockScan(content, i + 1, step.parser, Append(result, content[i]))

removeBlockComments(content) == BlockScan(content, 1, reset, <<>>)
\* what a failed parse throws
UnterminatedString == [kind |-> "UnterminatedStringLiteral"]

Value(v) == [ok |-> TRUE, value |-> v]
Failure(error) == [ok |-> FALSE, error |-> error]

\* String.prototype.split(/\r?\n/)
RECURSIVE SplitLines(_, _)
SplitLines(s, line) ==
    IF s = <<>> THEN <<line>>
    ELSE IF Head(s) = "\n" THEN <<line>> \o SplitLines(Tail(s), <<>>)
    ELSE IF Head(s) = "\r" /\ CharAt(s, 2) = "\n"
         THEN <<line>> \o SplitLines(Tail(Tail(s)), <<>>)
         ELSE SplitLines(Tail(s), Append(line, Head(s)))

\* Array.prototype.join
RECURSIVE Join(_, _)
Join(parts, sep) ==
    IF parts = <<>> THEN <<>>
    ELSE IF Len(parts) = 1 THEN parts[1]
    ELSE parts[1] \o sep \o Join(Tail(parts), sep)

\* a slip: a # outside a literal starts a comment wherever it stands
RECURSIVE LineScanAnyHash(_, _, _, _)
LineScanAnyHash(line, i, parser, result) ==
    IF i > Len(line) THEN [result |-> result, inString |-> parser.inString]
    ELSE LET step == processChar(parser, line[i], line, i)
         IN  IF step.result
             THEN LineScanAnyHash(line, i + 1, step.parser, Append(result, line[i]))
             ELSE IF line[i] = "-" /\ CharAt(line, i + 1) = "-"
             THEN [result |-> result, inString |-> step.parser.inString]
             ELSE IF line[i] = "#"
             THEN [result |-> result, inString |-> step.parser.inString]
             ELSE LineScanAnyHash(line, i + 1, step.parser, Append(result, line[i]))

\* the loop of removeLineComments over one line, from index i on: what is
\* kept of the line, and whether the line ends inside a string literal
RECURSIVE LineScan(_, _, _, _)
LineScan(line, i, parser, result) ==
    IF i > Len(line) THEN [result |-> result, inString |-> parser.inString]
    ELSE LET step == processChar(parser, line[i], line, i)
         IN  IF step.result
             THEN LineScan(line, i + 1, step.parser, Append(result, line[i]))
             ELSE IF line[i] = "-" /\ CharAt(line, i + 1) = "-"
             THEN [result |-> result, inString |-> step.parser.inString]
             ELSE IF line[i] = "#" /\ Trim(result) = <<>>
             THEN [result |-> result, inString |-> step.parser.inString]
             ELSE LineScan(line, i + 1, step.parser, Append(result, line[i]))

\* a slip: the tracker is looked at once, after the last line
removeLineCommentsLastLine(content) ==
    LET lines == SplitLines(content, <<>>)
        scanned == [n \in 1..Len(lines) |-> LineScan(lines[n], 1, reset, <<>>)]
    IN  IF scanned[Len(lines)].inString
        THEN Failure(UnterminatedString)
        ELSE Value(Join([n \in 1..Len(lines) |-> scanned[n].result], <<"\n">>))

removeLineComments(content) ==
    LET lines == SplitLines(content, <<>>)
        scanned == [n \in 1..Len(lines) |-> LineScan(lines[n], 1, reset, <<>>)]
    IN  IF \E n \in 1..Len(lines) : scanned[n].inString
        THEN Failure(UnterminatedString)
        ELSE Value(Join([n \in 1..Len(lines) |-> scanned[n].result], <<"\n">>))

\* the line terminators of a regular expression
LineTerminators == {"\n", "\r"}

\* the first index from p on whose character is not white space (is a line
\* terminator), or the index past the end
RECURSIVE SkipSpaces(_, _)
SkipSpaces(s, p) ==
    IF p <= Len(s) /\ IsSpace(s[p]) THEN SkipSpaces(s, p + 1) ELSE p

RECURSIVE SkipToTerminator(_, _)
SkipToTerminator(s, p) ==
    IF p <= Len(s) /\ s[p] \notin LineTerminators
    THEN SkipToTerminator(s, p + 1) ELSE p

\* /^\s*SET\s.*(\n|\r\n|\r|$)/m tried at index p: the index after the match,
\* or 0 when there is none
SetLineMatch(s, p) ==
    LET q == SkipSpaces(s, p)
        e == SkipToTerminator(s, q + 4)
    IN  IF /\ p = 1 \/ s[p - 1] \in LineTerminators
           /\ q + 3 <= Len(s)
           /\ SubSeq(s, q, q + 2) = <<"S", "E", "T">>
           /\ IsSpace(s[q + 3])
        THEN IF e > Len(s) THEN e
             ELSE IF s[e] = "\r" /\ CharAt(s, e + 1) = "\n" THEN e + 2
             ELSE e + 1
        ELSE 0

\* replace(/^\s*SET\s.*(\n|\r\n|\r|$)/gm, '')
RECURSIVE RemoveSetLines(_, _)
RemoveSetLines(s, p) ==
    IF p > Len(s) THEN <<>>
    ELSE IF SetLineMatch(s, p) # 0 THEN RemoveSetLines(s, SetLineMatch(s, p))
    ELSE <<s[p]>> \o RemoveSetLines(s, p + 1)

\* replace(/\s+/g, ' ')
RECURSIVE CollapseSpace(_)
CollapseSpace(s) ==
    IF s = <<>> THEN <<>>
    ELSE IF IsSpace(Head(s)) THEN <<" ">> \o CollapseSpace(TrimStart(s))
    ELSE <<Head(s)>> \o CollapseSpace(Tail(s))

\* a slip: the delimiter splits wherever it stands
RECURSIVE SplitScanAnywhere(_, _, _, _, _, _)
SplitScanAnywhere(content, delimiter, i, parser, parts, current) ==
    LET trimmed == Trim(current)
        pushed == IF trimmed # <<>> THEN Append(parts, trimmed) ELSE parts
    IN  IF i > Len(content)
        THEN IF parser.inString THEN Failure(UnterminatedString) ELSE Value(pushed)
        ELSE LET step == processChar(parser, content[i], content, i)
             IN  IF content[i] = delimiter
                 THEN SplitScanAnywhere(content, delimiter, i + 1, step.parser,
                                        pushed, <<>>)
                 ELSE SplitScanAnywhere(content, delimiter, i + 1, step.parser,
                                        parts, Append(current, content[i]))

\* the loop of splitByDelimiter from index i on
RECURSIVE SplitScan(_, _, _, _, _, _)
SplitScan(content, delimiter, i, parser, parts, current) ==
    LET trimmed == Trim(current)
        pushed == IF trimmed # <<>> THEN Append(parts, trimmed) ELSE parts
    IN  IF i > Len(content)
        THEN IF parser.inString THEN Failure(UnterminatedString) ELSE Value(pushed)
        ELSE LET step == processChar(parser, content[i], content, i)
             IN  IF step.result
                 THEN SplitScan(content, delimiter, i + 1, step.parser, parts,
                                Append(current, content[i]))
                 ELSE IF content[i] = delimiter
                 THEN SplitScan(content, delimiter, i + 1, step.parser, pushed, <<>>)
                 ELSE SplitScan(content, delimiter, i + 1, step.parser, parts,
                                Append(current, content[i]))

splitByDelimiter(content, delimiter) ==
    SplitScan(content, delimiter, 1, reset, <<>>, <<>>)

\* sqlQueries: the executable statements of a content, or the error thrown
sqlQueries(content) ==
    IF content = <<>> THEN Value(<<>>)
    ELSE LET stripped == removeLineComments(removeBlockComments(content))
         IN  IF ~stripped.ok THEN stripped
             ELSE LET cleaned ==
                          Trim(CollapseSpace(RemoveSetLines(stripped.value, 1)))
                  IN  IF cleaned = <<>> THEN Value(<<>>)
                      ELSE splitByDelimiter(cleaned, ";")
\* String.prototype.toUpperCase, on the letters of the basic Latin alphabet
LowerCase == <<"a", "b", "c", "d", "e", "f", "g", "h", "i", "j", "k", "l", "m",
               "n", "o", "p", "q", "r", "s", "t", "u", "v", "w", "x", "y", "z">>
UpperCase == <<"A", "B", "C", "D", "E", "F", "G", "H", "I", "J", "K", "L", "M",
               "N", "O", "P", "Q", "R", "S", "T", "U", "V", "W", "X", "Y", "Z">>

toUpperCase(s) ==
    [i \in 1..Len(s) |->
        IF \E k \in 1..Len(LowerCase) : LowerCase[k] = s[i]
        THEN UpperCase[CHOOSE k \in 1..Len(LowerCase) : LowerCase[k] = s[i]]
        ELSE s[i]]

\* String.prototype.startsWith
StartsWith(s, prefix) ==
    Len(s) >= Len(prefix) /\ SubSeq(s, 1, Len(prefix)) = prefix

SET_PREFIX == <<"S", "E", "T", " ">>

\* the lines that start with SET, trimmed and without that prefix
RECURSIVE SetStatements(_)
SetStatements(lines) ==
    IF lines = <<>> THEN <<>>
    ELSE LET trimmed == Trim(Head(lines))
         IN  IF StartsWith(toUpperCase(trimmed), SET_PREFIX)
             THEN <<SubSeq(trimmed, Len(SET_PREFIX) + 1, Len(trimmed))>>
                      \o SetStatements(Tail(lines))
             ELSE SetStatements(Tail(lines))

\* a slip: the first = splits, inside a literal or not
RECURSIVE EqIndexAnywhere(_, _, _)
EqIndexAnywhere(part, i, parser) ==
    IF i > Len(part) THEN 0
    ELSE IF part[i] = "=" THEN i
    ELSE EqIndexAnywhere(part, i + 1, parser)

\* the index of the first = outside a string literal, from index i on; 0
\* when there is none
RECURSIVE EqIndex(_, _, _)
EqIndex(part, i, parser) ==
    IF i > Len(part) THEN 0
    ELSE LET step == processChar(parser, part[i], part, i)
         IN  IF ~step.result /\ part[i] = "=" THEN i
             ELSE EqIndex(part, i + 1, step.parser)

\* a value without the quotes around it
Unquoted(value) ==
    IF /\ Len(value) >= 2
       /\ \/ value[1] = "\"" /\ value[Len(value)] = "\""
          \/ value[1] = "'" /\ value[Len(value)] = "'"
    THEN SubSeq(value, 2, Len(value) - 1)
    ELSE value

\* the settings of the parts of the SET statements, a later part replacing
\* an earlier one with the same key
RECURSIVE SetsOfParts(_)
SetsOfParts(parts) ==
    IF parts = <<>> THEN <<>>
    ELSE LET part == parts[Len(parts)]
             before == SetsOfParts(SubSeq(parts, 1, Len(parts) - 1))
             eqIndex == EqIndex(part, 1, reset)
             key == Trim(SubSeq(part, 1, eqIndex - 1))
             value == Unquoted(Trim(SubSeq(part, eqIndex + 1, Len(part))))
         IN  IF eqIndex = 0 \/ key = <<>> THEN before
             ELSE [k \in DOMAIN before \cup {key} |->
                      IF k = key THEN value ELSE before[k]]

\* sqlSets: the key/value mapping of the SET lines, or the error thrown
sqlSets(content) ==
    IF content = <<>> THEN Value(<<>>)
    ELSE LET withoutComments == removeLineComments(removeBlockComments(content))
         IN  IF ~withoutComments.ok THEN withoutComments
             ELSE LET setStatements ==
                          SetStatements(SplitLines(withoutComments.value, <<>>))
                      parts == splitByDelimiter(Join(setStatements, <<" ">>), ";")
                  IN  IF setStatements = <<>> THEN Value(<<>>)
                      ELSE IF ~parts.ok THEN parts
                      ELSE Value(SetsOfParts(parts.value))

(***************************************************************************)
(* Migration files.  The content of a file is its text; the checksum is    *)
(* taken over the text as it is on disk, comments included.                *)
(***************************************************************************)
\* a statement, a SET line and a comment line of a migration file
Stmt(text) == text \o <<";", "\n">>

SetLine(key, value) == SET_PREFIX \o key \o <<"=">> \o value \o <<";", "\n">>

CommentLine == <<"-", "-", "\n">>

\* computeChecksum: the MD5 digest of the content, as a value that is equal
\* for equal contents only
computeChecksum(content) == [md5 |-> content]

\* a slip: { ...sets, ...globalSettings }
MergeSettingsGlobalWins(globalSettings, sets) ==
    [k \in DOMAIN globalSettings \cup DOMAIN sets |->
        IF k \in DOMAIN globalSettings THEN globalSettings[k] ELSE sets[k]]

\* { ...globalSettings, ...sets }
MergeSettings(globalSettings, sets) ==
    [k \in DOMAIN globalSettings \cup DOMAIN sets |->
        IF k \in DOMAIN sets THEN sets[k] ELSE globalSettings[k]]

\* the contents migration files are created with
ContentA == Stmt(<<"A">>)
ContentB ==
    SetLine(<<"a">>, <<"2">>) \o SetLine(<<"b">>, <<"3">>)
        \o Stmt(<<"B">>) \o Stmt(<<"C">>)

\* an edit of a file that leaves its statements and settings as they are:
\* a comment line is put in front, or that comment line is taken away
Edited(content) ==
    IF StartsWith(content, CommentLine)
    THEN SubSeq(content, Len(CommentLine) + 1, Len(content))
    ELSE CommentLine \o content

\* the names of the files of the executor's directory
FilePool ==
    << <<"1", "_", "a", ".", "s", "q", "l">>,
       <<"1", "0", "_", "b", ".", "s", "q", "l">>,
       <<"0", "0", "2", "_", "c", ".", "s", "q", "l">>,
       <<"7", "_", "d", ".", "s", "q", "l">>,
       <<"0", "5", "_", "e", ".", "s", "q", "l">> >>

SpecFiles == {FilePool[i] : i \in 1..MaxFiles}

\* the content a file is created with
InitialContent(file) ==
    IF file \in {FilePool[1], FilePool[4]} THEN ContentB ELSE ContentA

\* the global settings a caller passes
NoSettings == <<>>
GlobalSettingsPool ==
    {<<"a">> :> <<"1">>, (<<"a">> :> <<"1">>) @@ (<<"c">> :> <<"7">>)}

(***************************************************************************)
(* State.                                                                  *)
(***************************************************************************)
Runners == {1, 2}

VARIABLES
    files,              \* the migrations directory: file name -> content
    ledger,             \* the rows of the _migrations table, in insertion order
    runs,               \* runs started so far
    envSteps,           \* changes made to the directory so far
    last,               \* the last run, when it succeeded and nothing changed since
    pc,                 \* per run: its position
    args,               \* per run: abortDivergent, globalSettings
    atStart,            \* per run: the ledger when the run started, and whether
                        \* the run repeats a successful run, directory unchanged
    migrations,         \* per run: the catalog getMigrations returned
    appliedMigrations,  \* per run: version -> ledger row, as read at the start
    startLedger,        \* per run: the ledger rows when they were read
    idx,                \* per run: position in the catalog (1-based)
    queries,            \* per run: statements of the current migration
    mergedSettings,     \* per run: settings of the current migration
    qi,                 \* per run: position in queries (1-based)
    appliedList,        \* per run: files applied in this invocation
    logs,               \* per run: what the logger was given
    calls,              \* per run: calls dispatched to the client, in order
    inflight,           \* per run: calls dispatched and not yet returned
    result,             \* per run: running, ok, or the error thrown
    parserStack,        \* the parsers the pool of sql-parse.ts holds, top last
    frames,             \* the calls of the parsing functions in progress,
                        \* innermost last, each with the parser it holds
    poolLog             \* parsers created, acquired and released so far,
                        \* calls made, whether the last one threw

vars == <<files, ledger, runs, envSteps, last, pc, args, atStart, migrations,
          appliedMigrations, startLedger, idx, queries, mergedSettings, qi,
          appliedList, logs, calls, inflight, result, parserStack, frames,
          poolLog>>

poolVars == <<parserStack, frames, poolLog>>

runLocals == <<appliedMigrations, startLedger, idx, queries, mergedSettings,
               qi, appliedList>>

NoLast == [none |-> TRUE]
NotStarted == [repeat |-> FALSE, ledger |-> <<>>]
NoArgs == [abortDivergent |-> TRUE, globalSettings |-> NoSettings]
Running == [status |-> "running"]
Ok == [status |-> "ok"]
Thrown(error) == [status |-> "error", error |-> error]

\* const parserStack = new ParserStack(): the pool is empty, no parsing
\* function has been called
InitParserStack ==
    /\ parserStack = <<>>
    /\ frames = <<>>
    /\ poolLog = [created |-> 0, acquired |-> 0, released |-> 0, calls |-> 0,
                  dirty |-> FALSE, threw |-> FALSE]

InitRun ==
    /\ pc = [r \in Runners |-> "idle"]
    /\ args = [r \in Runners |-> NoArgs]
    /\ atStart = [r \in Runners |-> NotStarted]
    /\ migrations = [r \in Runners |-> <<>>]
    /\ appliedMigrations = [r \in Runners |-> <<>>]
    /\ startLedger = [r \in Runners |-> <<>>]
    /\ idx = [r \in Runners |-> 0]
    /\ queries = [r \in Runners |-> <<>>]
    /\ mergedSettings = [r \in Runners |-> <<>>]
    /\ qi = [r \in Runners |-> 0]
    /\ appliedList = [r \in Runners |-> <<>>]
    /\ logs = [r \in Runners |-> <<>>]
    /\ calls = [r \in Runners |-> <<>>]
    /\ inflight = [r \in Runners |-> 0]
    /\ result = [r \in Runners |-> Running]
    /\ InitParserStack

\* a directory holding some of the files, a freshly created ledger table
Init ==
    /\ \E present \in SUBSET SpecFiles :
          files = [f \in present |-> InitialContent(f)]
    /\ ledger = <<>>
    /\ runs = 0
    /\ envSteps = 0
    /\ last = NoLast
    /\ InitRun

(***************************************************************************)
(* Helpers of the actions.                                                 *)
(***************************************************************************)
Set(f, r, v) == [f EXCEPT ![r] = v]

\* all arrangements of a finite set: the orders readdir can list a directory
Perms(S) ==
    {p \in [1..Cardinality(S) -> S] :
        \A i, j \in 1..Cardinality(S) : p[i] = p[j] => i = j}

Versions(rows) == {rows[i].version : i \in 1..Len(rows)}

\* getAppliedMigrations: the Map built from the rows SELECTed ORDER BY
\* version; among rows of one version the one set last stays, and their
\* relative order is the database's choice
AppliedMaps(rows) ==
    {m \in [Versions(rows) -> {rows[i] : i \in 1..Len(rows)}] :
        \A v \in Versions(rows) : m[v].version = v}

\* a slip: the validation is left out
MissingVersionsNone(applied, catalog) == {}

\* validateAppliedMigrations: the applied versions with no file in the
\* catalog; the Map is walked in ascending version order
MissingVersions(applied, catalog) ==
    {v \in DOMAIN applied : ~\E i \in 1..Len(catalog) : catalog[i].version = v}

Call(op) == [op |-> op]

\* a call on the client createDb opens for itself
CreateDbCall(op) == [op |-> op, client |-> "createDb"]

\* the calls of a createDb that succeeds
CreateDbCalls ==
    <<CreateDbCall("ping"), CreateDbCall("createDatabase"), CreateDbCall("close")>>

ExecCall(file, query, settings) ==
    [op |-> "exec", file |-> file, query |-> query, settings |-> settings]

InsertCall(row) == [op |-> "insert", row |-> row]

\* a slip: the file name is stored where the checksum belongs
LedgerRowNameAsChecksum(migration, checksum) ==
    [version |-> migration.version, checksum |-> migration.file,
     migration_name |-> migration.file]

LedgerRow(migration, checksum) ==
    [version |-> migration.version, checksum |-> checksum,
     migration_name |-> migration.file]

Log(level, msg, what) == [level |-> level, msg |-> msg, what |-> what]

\* an error leaves applyMigrations: runMigration closes the client and
\* rethrows
Throw(r, error) ==
    /\ result' = Set(result, r, Thrown(error))
    /\ pc' = Set(pc, r, "closing")
    /\ UNCHANGED poolVars

AllIdle == \A r \in Runners : pc[r] = "idle"

(***************************************************************************)
(* runMigration: discovery                                                 *)
(***************************************************************************)
\* a caller starts a run; runs do not overlap
StartRun(r) ==
    /\ AllIdle
    /\ runs < MaxRuns
    /\ \E abortDivergent \in BOOLEAN, globalSettings \in GlobalSettingsPool :
          /\ args' = Set(args, r, [abortDivergent |-> abortDivergent,
                                   globalSettings |-> globalSettings])
          /\ atStart' = Set(atStart, r,
                            [repeat |-> /\ last # NoLast
                                        /\ last.abortDivergent = abortDivergent,
                             ledger |-> ledger])
    /\ runs' = runs + 1
    /\ pc' = Set(pc, r, "getMigrations")
    /\ last' = NoLast
    /\ UNCHANGED <<files, ledger, envSteps, migrations, runLocals, logs, calls,
                   inflight, result>>
    /\ UNCHANGED poolVars

\* getMigrations returns the catalog
GetMigrationsOk(r) ==
    /\ pc[r] = "getMigrations"
    /\ \E listing \in Perms(DOMAIN files) :
          LET found == GetMigrations(listing)
          IN  /\ found.ok
              /\ migrations' = Set(migrations, r, found.migrations)
    /\ pc' = Set(pc, r, "createDb")
    /\ UNCHANGED <<files, ledger, runs, envSteps, last, args, atStart, runLocals,
                   logs, calls, inflight, result>>
    /\ UNCHANGED poolVars

\* a slip: the directory is read after createDb has run
GetMigrationsFailAfterCreateDb(r) ==
    /\ pc[r] = "getMigrations"
    /\ \E listing \in Perms(DOMAIN files) :
          LET found == GetMigrations(listing)
          IN  /\ ~found.ok
              /\ result' = Set(result, r, Thrown(found.error))
    /\ calls' = Set(calls, r, calls[r] \o CreateDbCalls)
    /\ pc' = Set(pc, r, "done")
    /\ UNCHANGED <<files, ledger, runs, envSteps, last, args, atStart, migrations,
                   runLocals, logs, inflight>>
    /\ UNCHANGED poolVars

\* getMigrations throws: no client has been created yet
GetMigrationsFail(r) ==
    /\ pc[r] = "getMigrations"
    /\ \E listing \in Perms(DOMAIN files) :
          LET found == GetMigrations(listing)
          IN  /\ ~found.ok
              /\ result' = Set(result, r, Thrown(found.error))
    /\ pc' = Set(pc, r, "done")
    /\ UNCHANGED <<files, ledger, runs, envSteps, last, args, atStart, migrations,
                   runLocals, logs, calls, inflight>>
    /\ UNCHANGED poolVars

\* readdir fails: the directory cannot be listed
ReaddirFail(r) ==
    /\ pc[r] = "getMigrations"
    /\ result' = Set(result, r, Thrown([kind |-> "NoMigrationDirectory"]))
    /\ pc' = Set(pc, r, "done")
    /\ UNCHANGED <<files, ledger, runs, envSteps, last, args, atStart, migrations,
                   runLocals, logs, calls, inflight>>
    /\ UNCHANGED poolVars

(***************************************************************************)
(* runMigration: the database, the connection, the ledger table.  createDb *)
(* works on a client of its own; CREATE DATABASE and CREATE TABLE are sent *)
(* with client.exec and logged under names of their own, to tell them from *)
(* the statements of the migrations.                                       *)
(***************************************************************************)
\* a failure that ends runMigration where no try block is around it
Fail(r, error) ==
    /\ result' = Set(result, r, Thrown(error))
    /\ pc' = Set(pc, r, "done")
    /\ UNCHANGED poolVars

SetupFrame ==
    UNCHANGED <<files, ledger, runs, envSteps, last, args, atStart, migrations,
                runLocals, logs, inflight>>

\* createDb: connect throws on an invalid timeout or unreadable TLS files
CreateDbConnectFail(r) ==
    /\ pc[r] = "createDb"
    /\ Fail(r, [kind |-> "InvalidConnection"])
    /\ UNCHANGED calls
    /\ SetupFrame

\* createDb: the ping fails and the client is closed
CreateDbPingFail(r) ==
    /\ pc[r] = "createDb"
    /\ calls' = Set(calls, r, calls[r] \o <<CreateDbCall("ping"),
                                             CreateDbCall("close")>>)
    /\ Fail(r, [kind |-> "FailedToConnect"])
    /\ SetupFrame
    /\ UNCHANGED poolVars

\* createDb: validateDbName or validateDbEngine throws after the ping
CreateDbInvalid(r) ==
    /\ pc[r] = "createDb"
    /\ calls' = Set(calls, r, Append(calls[r], CreateDbCall("ping")))
    /\ Fail(r, [kind |-> "InvalidDatabase"])
    /\ SetupFrame
    /\ UNCHANGED poolVars

\* createDb: CREATE DATABASE fails and the client is closed
CreateDbExecFail(r) ==
    /\ pc[r] = "createDb"
    /\ calls' = Set(calls, r, calls[r] \o <<CreateDbCall("ping"),
                                             CreateDbCall("createDatabase"),
                                             CreateDbCall("close")>>)
    /\ Fail(r, [kind |-> "CantCreateDatabase"])
    /\ SetupFrame
    /\ UNCHANGED poolVars

CreateDbOk(r) ==
    /\ pc[r] = "createDb"
    /\ calls' = Set(calls, r, calls[r] \o CreateDbCalls)
    /\ pc' = Set(pc, r, "verifyConnection")
    /\ UNCHANGED result
    /\ SetupFrame
    /\ UNCHANGED poolVars

\* connect, then verifyConnection: the ping fails and the client is closed
VerifyConnectionFail(r) ==
    /\ pc[r] = "verifyConnection"
    /\ calls' = Set(calls, r, calls[r] \o <<Call("ping"), Call("close")>>)
    /\ Fail(r, [kind |-> "FailedToConnect"])
    /\ SetupFrame
    /\ UNCHANGED poolVars

VerifyConnectionOk(r) ==
    /\ pc[r] = "verifyConnection"
    /\ calls' = Set(calls, r, Append(calls[r], Call("ping")))
    /\ pc' = Set(pc, r, "initMigrationTable")
    /\ UNCHANGED result
    /\ SetupFrame
    /\ UNCHANGED poolVars

\* initMigrationTable: validateTableName or validateTableEngine throws
InitMigrationTableInvalid(r) ==
    /\ pc[r] = "initMigrationTable"
    /\ Throw(r, [kind |-> "InvalidTable"])
    /\ UNCHANGED calls
    /\ SetupFrame

\* initMigrationTable: CREATE TABLE IF NOT EXISTS fails
InitMigrationTableFail(r) ==
    /\ pc[r] = "initMigrationTable"
    /\ calls' = Set(calls, r, Append(calls[r], Call("createTable")))
    /\ Throw(r, [kind |-> "CantCreateTable"])
    /\ SetupFrame
    /\ UNCHANGED poolVars

InitMigrationTableOk(r) ==
    /\ pc[r] = "initMigrationTable"
    /\ calls' = Set(calls, r, Append(calls[r], Call("createTable")))
    /\ pc' = Set(pc, r, "applyMigrations")
    /\ UNCHANGED result
    /\ SetupFrame
    /\ UNCHANGED poolVars

\* the calls of a run up to applyMigrations
SetupCalls == CreateDbCalls \o <<Call("ping"), Call("createTable")>>

(***************************************************************************)
(* applyMigrations                                                         *)
(***************************************************************************)
\* getAppliedMigrations: client.query is dispatched
QueryDispatch(r) ==
    /\ pc[r] = "applyMigrations"
    /\ calls' = Set(calls, r, Append(calls[r], Call("query")))
    /\ inflight' = Set(inflight, r, inflight[r] + 1)
    /\ pc' = Set(pc, r, "awaitQuery")
    /\ UNCHANGED <<files, ledger, runs, envSteps, last, args, atStart, migrations,
                   runLocals, logs, result>>
    /\ UNCHANGED poolVars

\* a slip: every record is compared with its file before the loop begins
QueryOkChecksDivergence(r) ==
    /\ pc[r] = "awaitQuery"
    /\ inflight' = Set(inflight, r, inflight[r] - 1)
    /\ \E applied \in AppliedMaps(ledger) :
          LET changed == {i \in 1..Len(migrations[r]) :
                            /\ migrations[r][i].version \in DOMAIN applied
                            /\ applied[migrations[r][i].version].checksum
                                  # computeChecksum(files[migrations[r][i].file])}
          IN  /\ MissingVersions(applied, migrations[r]) = {}
              /\ appliedMigrations' = Set(appliedMigrations, r, applied)
              /\ IF args[r].abortDivergent /\ changed # {}
                 THEN /\ Throw(r, [kind |-> "DivergentMigration",
                                   name |-> applied[migrations[r][Min(changed)].version]
                                               .migration_name])
                      /\ UNCHANGED idx
                 ELSE /\ idx' = Set(idx, r, 1)
                      /\ pc' = Set(pc, r, "loop")
                      /\ UNCHANGED result
    /\ startLedger' = Set(startLedger, r, ledger)
    /\ appliedList' = Set(appliedList, r, <<>>)
    /\ UNCHANGED <<files, ledger, runs, envSteps, last, args, atStart, migrations,
                   queries, mergedSettings, qi, logs, calls>>
    /\ UNCHANGED poolVars

\* the rows arrive and every applied version has its file
QueryOk(r) ==
    /\ pc[r] = "awaitQuery"
    /\ inflight' = Set(inflight, r, inflight[r] - 1)
    /\ \E applied \in AppliedMaps(ledger) :
          /\ MissingVersions(applied, migrations[r]) = {}
          /\ appliedMigrations' = Set(appliedMigrations, r, applied)
    /\ startLedger' = Set(startLedger, r, ledger)
    /\ appliedList' = Set(appliedList, r, <<>>)
    /\ idx' = Set(idx, r, 1)
    /\ pc' = Set(pc, r, "loop")
    /\ UNCHANGED <<files, ledger, runs, envSteps, last, args, atStart, migrations,
                   queries, mergedSettings, qi, logs, calls, result>>
    /\ UNCHANGED poolVars

\* the rows arrive and validateAppliedMigrations finds a version without file
DeletedMigration(r) ==
    /\ pc[r] = "awaitQuery"
    /\ inflight' = Set(inflight, r, inflight[r] - 1)
    /\ \E applied \in AppliedMaps(ledger) :
          LET missing == MissingVersions(applied, migrations[r])
          IN  /\ missing # {}
              /\ appliedMigrations' = Set(appliedMigrations, r, applied)
              /\ Throw(r, [kind |-> "DeletedMigration",
                           name |-> applied[Min(missing)].migration_name])
    /\ startLedger' = Set(startLedger, r, ledger)
    /\ UNCHANGED <<files, ledger, runs, envSteps, last, args, atStart, migrations,
                   idx, queries, mergedSettings, qi, appliedList, logs, calls>>
    /\ UNCHANGED poolVars

\* the SELECT fails
QueryFail(r) ==
    /\ pc[r] = "awaitQuery"
    /\ inflight' = Set(inflight, r, inflight[r] - 1)
    /\ Throw(r, [kind |-> "CantSelect"])
    /\ UNCHANGED <<files, ledger, runs, envSteps, last, args, atStart, migrations,
                   runLocals, logs, calls>>
    /\ UNCHANGED poolVars

\* the migration the loop is at, its content read from disk, its checksum
Current(r) == migrations[r][idx[r]]
CurrentContent(r) == files[Current(r).file]
CurrentChecksum(r) == computeChecksum(CurrentContent(r))
InLoop(r) == pc[r] = "loop" /\ idx[r] <= Len(migrations[r])
\* a slip: the Map is asked for the file name, which is none of its keys
IsAppliedByFileName(r) == FALSE
IsApplied(r) == Current(r).version \in DOMAIN appliedMigrations[r]
AppliedRow(r) == appliedMigrations[r][Current(r).version]

\* a slip: the continue is missing and the file is parsed and run again
SkipAppliedReapplies(r) ==
    /\ InLoop(r)
    /\ IsApplied(r)
    /\ AppliedRow(r).checksum = CurrentChecksum(r)
    /\ queries' = Set(queries, r, sqlQueries(CurrentContent(r)).value)
    /\ mergedSettings' = Set(mergedSettings, r,
                             MergeSettings(args[r].globalSettings,
                                           sqlSets(CurrentContent(r)).value))
    /\ qi' = Set(qi, r, 1)
    /\ pc' = Set(pc, r, "exec")
    /\ UNCHANGED <<files, ledger, runs, envSteps, last, args, atStart, migrations,
                   appliedMigrations, startLedger, idx, appliedList, logs, calls,
                   inflight, result>>
    /\ UNCHANGED poolVars

\* already applied, checksum unchanged: skipped
SkipApplied(r) ==
    /\ InLoop(r)
    /\ IsApplied(r)
    /\ AppliedRow(r).checksum = CurrentChecksum(r)
    /\ logs' = Set(logs, r, Append(logs[r], Log("debug", "Skipped", Current(r).file)))
    /\ idx' = Set(idx, r, idx[r] + 1)
    /\ UNCHANGED <<files, ledger, runs, envSteps, last, pc, args, atStart,
                   migrations, appliedMigrations, startLedger, queries,
                   mergedSettings, qi, appliedList, calls, inflight, result>>
    /\ UNCHANGED poolVars

\* a slip: the flag is not looked at and the run only warns
DivergentAbortOnlyWarns(r) ==
    /\ InLoop(r)
    /\ IsApplied(r)
    /\ AppliedRow(r).checksum # CurrentChecksum(r)
    /\ args[r].abortDivergent
    /\ logs' = Set(logs, r, logs[r] \o
                  <<Log("warn", "DifferentChecksum", AppliedRow(r).migration_name),
                    Log("debug", "Skipped", Current(r).file)>>)
    /\ idx' = Set(idx, r, idx[r] + 1)
    /\ UNCHANGED <<files, ledger, runs, envSteps, last, pc, args, atStart,
                   migrations, appliedMigrations, startLedger, queries,
                   mergedSettings, qi, appliedList, calls, inflight, result>>
    /\ UNCHANGED poolVars

\* already applied, checksum changed, abortDivergent: the run fails
DivergentAbort(r) ==
    /\ InLoop(r)
    /\ IsApplied(r)
    /\ AppliedRow(r).checksum # CurrentChecksum(r)
    /\ args[r].abortDivergent
    /\ Throw(r, [kind |-> "DivergentMigration", name |-> AppliedRow(r).migration_name])
    /\ UNCHANGED <<files, ledger, runs, envSteps, last, args, atStart, migrations,
                   runLocals, logs, calls, inflight>>

\* a slip: break instead of continue, the loop ends at the divergent entry
DivergentWarnStops(r) ==
    /\ InLoop(r)
    /\ IsApplied(r)
    /\ AppliedRow(r).checksum # CurrentChecksum(r)
    /\ ~args[r].abortDivergent
    /\ logs' = Set(logs, r, logs[r] \o
                  <<Log("warn", "DifferentChecksum", AppliedRow(r).migration_name),
                    Log("debug", "Skipped", Current(r).file)>>)
    /\ idx' = Set(idx, r, Len(migrations[r]) + 1)
    /\ UNCHANGED <<files, ledger, runs, envSteps, last, pc, args, atStart,
                   migrations, appliedMigrations, startLedger, queries,
                   mergedSettings, qi, appliedList, calls, inflight, result>>
    /\ UNCHANGED poolVars

\* already applied, checksum changed, abortDivergent off: warned and skipped
DivergentWarn(r) ==
    /\ InLoop(r)
    /\ IsApplied(r)
    /\ AppliedRow(r).checksum # CurrentChecksum(r)
    /\ ~args[r].abortDivergent
    /\ logs' = Set(logs, r, logs[r] \o
                  <<Log("warn", "DifferentChecksum", AppliedRow(r).migration_name),
                    Log("debug", "Skipped", Current(r).file)>>)
    /\ idx' = Set(idx, r, idx[r] + 1)
    /\ UNCHANGED <<files, ledger, runs, envSteps, last, pc, args, atStart,
                   migrations, appliedMigrations, startLedger, queries,
                   mergedSettings, qi, appliedList, calls, inflight, result>>
    /\ UNCHANGED poolVars

\* what parsing the current file gives: its statements and settings, or the
\* error of sqlQueries, or else of sqlSets
Parsed(r) ==
    LET queriesOf == sqlQueries(CurrentContent(r))
        setsOf == sqlSets(CurrentContent(r))
    IN  IF ~queriesOf.ok THEN queriesOf
        ELSE IF ~setsOf.ok THEN setsOf
        ELSE [ok |-> TRUE, queries |-> queriesOf.value, sets |-> setsOf.value]

\* a slip: the file is recorded before it is parsed
ParseFailRecorded(r) ==
    /\ InLoop(r)
    /\ ~IsApplied(r)
    /\ ~Parsed(r).ok
    /\ ledger' = Append(ledger, LedgerRow(Current(r), CurrentChecksum(r)))
    /\ Throw(r, Parsed(r).error)
    /\ UNCHANGED <<files, runs, envSteps, last, args, atStart, migrations,
                   runLocals, logs, calls, inflight>>
    /\ UNCHANGED poolVars

\* not applied, and the parser throws: the error leaves applyMigrations
ParseFail(r) ==
    /\ InLoop(r)
    /\ ~IsApplied(r)
    /\ ~Parsed(r).ok
    /\ Throw(r, Parsed(r).error)
    /\ UNCHANGED <<files, ledger, runs, envSteps, last, args, atStart, migrations,
                   runLocals, logs, calls, inflight>>

\* a slip: the SET settings are merged into a mapping kept across the loop
BeginMigrationKeepsSettings(r) ==
    /\ InLoop(r)
    /\ ~IsApplied(r)
    /\ Parsed(r).ok
    /\ queries' = Set(queries, r, Parsed(r).queries)
    /\ mergedSettings' = Set(mergedSettings, r,
                             MergeSettings(MergeSettings(args[r].globalSettings,
                                                         mergedSettings[r]),
                                           Parsed(r).sets))
    /\ qi' = Set(qi, r, 1)
    /\ pc' = Set(pc, r, "exec")
    /\ UNCHANGED <<files, ledger, runs, envSteps, last, args, atStart, migrations,
                   appliedMigrations, startLedger, idx, appliedList, logs, calls,
                   inflight, result>>
    /\ UNCHANGED poolVars

\* a slip: a pending version below a recorded one is passed over
BeginMigrationSkipsLower(r) ==
    /\ InLoop(r)
    /\ ~IsApplied(r)
    /\ Parsed(r).ok
    /\ IF \E v \in DOMAIN appliedMigrations[r] : v > Current(r).version
       THEN /\ idx' = Set(idx, r, idx[r] + 1)
            /\ UNCHANGED <<queries, mergedSettings, qi, pc>>
       ELSE /\ queries' = Set(queries, r, Parsed(r).queries)
            /\ mergedSettings' = Set(mergedSettings, r,
                                     MergeSettings(args[r].globalSettings,
                                                   Parsed(r).sets))
            /\ qi' = Set(qi, r, 1)
            /\ pc' = Set(pc, r, "exec")
            /\ UNCHANGED idx
    /\ UNCHANGED <<files, ledger, runs, envSteps, last, args, atStart, migrations,
                   appliedMigrations, startLedger, appliedList, logs, calls,
                   inflight, result>>
    /\ UNCHANGED poolVars

\* not applied: the file is parsed and its settings merged
BeginMigration(r) ==
    /\ InLoop(r)
    /\ ~IsApplied(r)
    /\ Parsed(r).ok
    /\ queries' = Set(queries, r, Parsed(r).queries)
    /\ mergedSettings' = Set(mergedSettings, r,
                             MergeSettings(args[r].globalSettings,
                                           Parsed(r).sets))
    /\ qi' = Set(qi, r, 1)
    /\ pc' = Set(pc, r, "exec")
    /\ UNCHANGED <<files, ledger, runs, envSteps, last, args, atStart, migrations,
                   appliedMigrations, startLedger, idx, appliedList, logs, calls,
                   inflight, result>>
    /\ UNCHANGED poolVars

\* a slip: the await is missing, the next statement is dispatched at once
ExecDispatchNoAwait(r) ==
    /\ pc[r] = "exec"
    /\ qi[r] <= Len(queries[r])
    /\ calls' = Set(calls, r, Append(calls[r],
                  ExecCall(Current(r).file, queries[r][qi[r]], mergedSettings[r])))
    /\ inflight' = Set(inflight, r, inflight[r] + 1)
    /\ qi' = Set(qi, r, qi[r] + 1)
    /\ UNCHANGED <<files, ledger, runs, envSteps, last, pc, args, atStart,
                   migrations, appliedMigrations, startLedger, idx, queries,
                   mergedSettings, appliedList, logs, result>>
    /\ UNCHANGED poolVars

\* executeMigrationQueries: the next statement is dispatched
ExecDispatch(r) ==
    /\ pc[r] = "exec"
    /\ qi[r] <= Len(queries[r])
    /\ calls' = Set(calls, r, Append(calls[r],
                  ExecCall(Current(r).file, queries[r][qi[r]], mergedSettings[r])))
    /\ inflight' = Set(inflight, r, inflight[r] + 1)
    /\ pc' = Set(pc, r, "awaitExec")
    /\ UNCHANGED <<files, ledger, runs, envSteps, last, args, atStart, migrations,
                   runLocals, logs, result>>
    /\ UNCHANGED poolVars

ExecOk(r) ==
    /\ pc[r] = "awaitExec"
    /\ inflight' = Set(inflight, r, inflight[r] - 1)
    /\ qi' = Set(qi, r, qi[r] + 1)
    /\ pc' = Set(pc, r, "exec")
    /\ UNCHANGED <<files, ledger, runs, envSteps, last, args, atStart, migrations,
                   appliedMigrations, startLedger, idx, queries, mergedSettings,
                   appliedList, logs, calls, result>>
    /\ UNCHANGED poolVars

\* a slip: the migration is recorded although its statement failed
ExecFailStillRecorded(r) ==
    /\ pc[r] = "awaitExec"
    /\ inflight' = Set(inflight, r, inflight[r] - 1)
    /\ ledger' = Append(ledger, LedgerRow(Current(r), CurrentChecksum(r)))
    /\ Throw(r, [kind |-> "MigrationError", file |-> Current(r).file])
    /\ UNCHANGED <<files, runs, envSteps, last, args, atStart, migrations,
                   runLocals, logs, calls>>
    /\ UNCHANGED poolVars

\* a slip: the next statement of the file is sent before the error surfaces
ExecFailDispatchesNext(r) ==
    /\ pc[r] = "awaitExec"
    /\ inflight' = Set(inflight, r, inflight[r] - 1)
    /\ calls' = Set(calls, r,
                   IF qi[r] < Len(queries[r])
                   THEN Append(calls[r],
                               ExecCall(Current(r).file, queries[r][qi[r] + 1],
                                        mergedSettings[r]))
                   ELSE calls[r])
    /\ logs' = Set(logs, r,
                  IF Len(appliedList[r]) > 0
                  THEN Append(logs[r], Log("info", "WasApplied", appliedList[r]))
                  ELSE logs[r])
    /\ Throw(r, [kind |-> "MigrationError", file |-> Current(r).file])
    /\ UNCHANGED <<files, ledger, runs, envSteps, last, args, atStart, migrations,
                   runLocals>>
    /\ UNCHANGED poolVars

\* a slip: the statement fails and what was applied so far is not logged
ExecFailUnreported(r) ==
    /\ pc[r] = "awaitExec"
    /\ inflight' = Set(inflight, r, inflight[r] - 1)
    /\ Throw(r, [kind |-> "MigrationError", file |-> Current(r).file])
    /\ UNCHANGED <<files, ledger, runs, envSteps, last, args, atStart, migrations,
                   runLocals, logs, calls>>
    /\ UNCHANGED poolVars

\* the statement fails: what was applied so far is logged, the error names
\* the file
ExecFail(r) ==
    /\ pc[r] = "awaitExec"
    /\ inflight' = Set(inflight, r, inflight[r] - 1)
    /\ logs' = Set(logs, r,
                  IF Len(appliedList[r]) > 0
                  THEN Append(logs[r], Log("info", "WasApplied", appliedList[r]))
                  ELSE logs[r])
    /\ Throw(r, [kind |-> "MigrationError", file |-> Current(r).file])
    /\ UNCHANGED <<files, ledger, runs, envSteps, last, args, atStart, migrations,
                   runLocals, calls>>
    /\ UNCHANGED poolVars

\* a slip: a file with no statement is passed over without a record
InsertDispatchNonEmpty(r) ==
    /\ pc[r] = "exec"
    /\ qi[r] > Len(queries[r])
    /\ IF queries[r] = <<>>
       THEN /\ idx' = Set(idx, r, idx[r] + 1)
            /\ pc' = Set(pc, r, "loop")
            /\ UNCHANGED <<calls, inflight>>
       ELSE /\ calls' = Set(calls, r, Append(calls[r],
                          InsertCall(LedgerRow(Current(r), CurrentChecksum(r)))))
            /\ inflight' = Set(inflight, r, inflight[r] + 1)
            /\ pc' = Set(pc, r, "awaitInsert")
            /\ UNCHANGED idx
    /\ UNCHANGED <<files, ledger, runs, envSteps, last, args, atStart, migrations,
                   appliedMigrations, startLedger, queries, mergedSettings, qi,
                   appliedList, logs, result>>
    /\ UNCHANGED poolVars

\* recordMigration: client.insert is dispatched after the last statement
InsertDispatch(r) ==
    /\ pc[r] = "exec"
    /\ qi[r] > Len(queries[r])
    /\ calls' = Set(calls, r, Append(calls[r],
                  InsertCall(LedgerRow(Current(r), CurrentChecksum(r)))))
    /\ inflight' = Set(inflight, r, inflight[r] + 1)
    /\ pc' = Set(pc, r, "awaitInsert")
    /\ UNCHANGED <<files, ledger, runs, envSteps, last, args, atStart, migrations,
                   runLocals, logs, result>>
    /\ UNCHANGED poolVars

\* a slip: the table keeps one record per version and drops the second
InsertOkUnique(r) ==
    /\ pc[r] = "awaitInsert"
    /\ inflight' = Set(inflight, r, inflight[r] - 1)
    /\ ledger' = IF \E i \in 1..Len(ledger) :
                       ledger[i].version = calls[r][Len(calls[r])].row.version
                 THEN ledger
                 ELSE Append(ledger, calls[r][Len(calls[r])].row)
    /\ appliedList' = Set(appliedList, r, Append(appliedList[r], Current(r).file))
    /\ logs' = Set(logs, r, Append(logs[r], Log("info", "Applied", Current(r).file)))
    /\ idx' = Set(idx, r, idx[r] + 1)
    /\ pc' = Set(pc, r, "loop")
    /\ UNCHANGED <<files, runs, envSteps, last, args, atStart, migrations,
                   appliedMigrations, startLedger, queries, mergedSettings, qi,
                   calls, result>>
    /\ UNCHANGED poolVars

InsertOk(r) ==
    /\ pc[r] = "awaitInsert"
    /\ inflight' = Set(inflight, r, inflight[r] - 1)
    /\ ledger' = Append(ledger, calls[r][Len(calls[r])].row)
    /\ appliedList' = Set(appliedList, r, Append(appliedList[r], Current(r).file))
    /\ logs' = Set(logs, r, Append(logs[r], Log("info", "Applied", Current(r).file)))
    /\ idx' = Set(idx, r, idx[r] + 1)
    /\ pc' = Set(pc, r, "loop")
    /\ UNCHANGED <<files, runs, envSteps, last, args, atStart, migrations,
                   appliedMigrations, startLedger, queries, mergedSettings, qi,
                   calls, result>>
    /\ UNCHANGED poolVars

\* a slip: the record is written although the insert is reported as failed
InsertFailStillRecorded(r) ==
    /\ pc[r] = "awaitInsert"
    /\ inflight' = Set(inflight, r, inflight[r] - 1)
    /\ ledger' = Append(ledger, calls[r][Len(calls[r])].row)
    /\ Throw(r, [kind |-> "CantInsert"])
    /\ UNCHANGED <<files, runs, envSteps, last, args, atStart, migrations,
                   runLocals, logs, calls>>
    /\ UNCHANGED poolVars

InsertFail(r) ==
    /\ pc[r] = "awaitInsert"
    /\ inflight' = Set(inflight, r, inflight[r] - 1)
    /\ Throw(r, [kind |-> "CantInsert"])
    /\ UNCHANGED <<files, ledger, runs, envSteps, last, args, atStart, migrations,
                   runLocals, logs, calls>>
    /\ UNCHANGED poolVars

\* the loop is over: the count of applied migrations is reported
LoopExit(r) ==
    /\ pc[r] = "loop"
    /\ idx[r] > Len(migrations[r])
    /\ logs' = Set(logs, r, Append(logs[r],
                  IF Len(appliedList[r]) > 0
                  THEN Log("info", "SuccessfullyApplied", Len(appliedList[r]))
                  ELSE Log("info", "NoMigrationsToApply", 0)))
    /\ result' = Set(result, r, Ok)
    /\ pc' = Set(pc, r, "closing")
    /\ UNCHANGED <<files, ledger, runs, envSteps, last, args, atStart, migrations,
                   runLocals, calls, inflight>>
    /\ UNCHANGED poolVars

\* runMigration closes the client, after applyMigrations returned or threw
Close(r) ==
    /\ pc[r] = "closing"
    /\ calls' = Set(calls, r, Append(calls[r], Call("close")))
    /\ pc' = Set(pc, r, "done")
    /\ UNCHANGED <<files, ledger, runs, envSteps, last, args, atStart, migrations,
                   runLocals, logs, inflight, result>>
    /\ UNCHANGED poolVars

\* the call has returned to its caller; nothing of it is kept
Return(r) ==
    /\ pc[r] = "done"
    /\ last' = IF result[r] = Ok
               THEN [abortDivergent |-> args[r].abortDivergent]
               ELSE NoLast
    /\ pc' = Set(pc, r, "idle")
    /\ args' = Set(args, r, NoArgs)
    /\ atStart' = Set(atStart, r, NotStarted)
    /\ migrations' = Set(migrations, r, <<>>)
    /\ appliedMigrations' = Set(appliedMigrations, r, <<>>)
    /\ startLedger' = Set(startLedger, r, <<>>)
    /\ idx' = Set(idx, r, 0)
    /\ queries' = Set(queries, r, <<>>)
    /\ mergedSettings' = Set(mergedSettings, r, <<>>)
    /\ qi' = Set(qi, r, 0)
    /\ appliedList' = Set(appliedList, r, <<>>)
    /\ logs' = Set(logs, r, <<>>)
    /\ calls' = Set(calls, r, <<>>)
    /\ inflight' = Set(inflight, r, 0)
    /\ result' = Set(result, r, Running)
    /\ UNCHANGED <<files, ledger, runs, envSteps>>
    /\ UNCHANGED poolVars

(***************************************************************************)
(* The directory between runs.                                             *)
(***************************************************************************)
EnvEnabled == AllIdle /\ runs >= 1 /\ runs < MaxRuns /\ envSteps < MaxEnvSteps

EnvFrame ==
    /\ envSteps' = envSteps + 1
    /\ last' = NoLast
    /\ UNCHANGED <<ledger, runs, pc, args, atStart, migrations, runLocals, logs,
                   calls, inflight, result>>
    /\ UNCHANGED poolVars

\* a file is edited
EditFile ==
    /\ EnvEnabled
    /\ \E f \in DOMAIN files : files' = [files EXCEPT ![f] = Edited(files[f])]
    /\ EnvFrame
    /\ UNCHANGED poolVars

\* a file is removed
DeleteFile ==
    /\ EnvEnabled
    /\ \E f \in DOMAIN files : files' = [g \in DOMAIN files \ {f} |-> files[g]]
    /\ EnvFrame
    /\ UNCHANGED poolVars

\* a file is added
AddFile ==
    /\ EnvEnabled
    /\ \E f \in SpecFiles \ DOMAIN files :
          files' = [g \in DOMAIN files \cup {f} |->
                       IF g = f THEN InitialContent(f) ELSE files[g]]
    /\ EnvFrame
    /\ UNCHANGED poolVars

(***************************************************************************)
(* Specifications.                                                         *)
(***************************************************************************)
RunStep(r) ==
    \/ StartRun(r)
    \/ GetMigrationsOk(r)
    \/ GetMigrationsFail(r)
    \/ ReaddirFail(r)
    \/ CreateDbConnectFail(r)
    \/ CreateDbPingFail(r)
    \/ CreateDbInvalid(r)
    \/ CreateDbExecFail(r)
    \/ CreateDbOk(r)
    \/ VerifyConnectionFail(r)
    \/ VerifyConnectionOk(r)
    \/ InitMigrationTableInvalid(r)
    \/ InitMigrationTableFail(r)
    \/ InitMigrationTableOk(r)
    \/ QueryDispatch(r)
    \/ QueryOk(r)
    \/ DeletedMigration(r)
    \/ QueryFail(r)
    \/ SkipApplied(r)
    \/ DivergentAbort(r)
    \/ DivergentWarn(r)
    \/ BeginMigration(r)
    \/ ExecDispatch(r)
    \/ ExecOk(r)
    \/ ExecFail(r)
    \/ InsertDispatch(r)
    \/ InsertOk(r)
    \/ InsertFail(r)
    \/ LoopExit(r)
    \/ Close(r)
    \/ Return(r)

\* runs one after the other, the directory changing between them
Next ==
    \/ RunStep(1)
    \/ EditFile
    \/ DeleteFile
    \/ AddFile

Spec == Init /\ [][Next]_vars

(***************************************************************************)
(* Discovery alone: getMigrations on directories of up to MaxListing       *)
(* entries, taken from names that are valid, invalid, not .sql, or share   *)
(* a version.                                                              *)
(***************************************************************************)
DirPool ==
    SpecFiles \cup
    { <<"0", "0", "7", "_", "y", ".", "s", "q", "l">>,
      <<"1", "_", "b", ".", "s", "q", "l">>,
      <<"x", "_", "1", ".", "s", "q", "l">>,
      <<"-", "1", "_", "a", ".", "s", "q", "l">>,
      <<"_", "a", ".", "s", "q", "l">>,
      <<"3", ".", "s", "q", "l">>,
      <<"4", "x", "_", "a", ".", "s", "q", "l">>,
      <<"7", "_", "d", ".", "s", "q", "l">>,
      <<"n", "o", "t", "e", "s", ".", "m", "d">> }

InitDiscovery ==
    /\ \E present \in SUBSET DirPool :
          /\ Cardinality(present) <= MaxListing
          /\ files = [f \in present |-> ContentA]
    /\ ledger = <<>>
    /\ runs = 0
    /\ envSteps = 0
    /\ last = NoLast
    /\ InitRun

NextDiscovery ==
    \/ StartRun(1)
    \/ GetMigrationsOk(1)
    \/ GetMigrationsFail(1)
    \/ ReaddirFail(1)
    \/ CreateDbConnectFail(1)
    \/ CreateDbPingFail(1)
    \/ CreateDbInvalid(1)
    \/ CreateDbExecFail(1)
    \/ CreateDbOk(1)

SpecDiscovery == InitDiscovery /\ [][NextDiscovery]_vars

(***************************************************************************)
(* The parser alone: a run that has listed a directory of one file and     *)
(* read an empty ledger parses the file, whose text is any sequence of up   *)
(* to MaxTokens tokens, a settings keyword followed by up to MaxTokens       *)
(* tokens, or one of a few files written out in full.                       *)
(***************************************************************************)
ParseTokens ==
    { <<"a">>, <<";">>, <<" ">>, <<"\n">>, <<"'">>, <<"\"">>, <<Backquote>>,
      <<"\\">>, <<"-", "-">>, <<"#">>, <<"/", "*">>, <<"*", "/">> }

\* migration files written out in full: the examples of the parser's tests
\* and of its documentation, and files around them
\* SELECT 1; /* no end
SampleUnterminatedComment ==
    <<"S", "E", "L", "E", "C", "T", " ", "1", ";", " ", "/", "*", " ", "n",
      "o", " ", "e", "n", "d">>

\* SELECT/*c*/col;
SampleInlineComment ==
    <<"S", "E", "L", "E", "C", "T", "/", "*", "c", "*", "/", "c", "o", "l",
      ";">>

\* SELECT '-- n' t; -- c\nSELECT 1;
SampleCommentRoundTrip ==
    <<"S", "E", "L", "E", "C", "T", " ", "'", "-", "-", " ", "n", "'", " ",
      "t", ";", " ", "-", "-", " ", "c", "\n", "S", "E", "L", "E", "C", "T",
      " ", "1", ";">>

\* -- don't\nSELECT '/* x */';
SampleQuoteInLineComment ==
    <<"-", "-", " ", "d", "o", "n", "'", "t", "\n", "S", "E", "L", "E", "C",
      "T", " ", "'", "/", "*", " ", "x", " ", "*", "/", "'", ";">>

\* SELECT 'it''s ok';
SampleDoubledQuote ==
    <<"S", "E", "L", "E", "C", "T", " ", "'", "i", "t", "'", "'", "s", " ",
      "o", "k", "'", ";">>

\* SELECT 'it''s -- x' t -- c\nFROM u;
SampleDoubledQuoteMarker ==
    <<"S", "E", "L", "E", "C", "T", " ", "'", "i", "t", "'", "'", "s", " ",
      "-", "-", " ", "x", "'", " ", "t", " ", "-", "-", " ", "c", "\n", "F",
      "R", "O", "M", " ", "u", ";">>

\* /* c 'x */' y */ SELECT 1;
SampleQuotedTerminator ==
    <<"/", "*", " ", "c", " ", "'", "x", " ", "*", "/", "'", " ", "y", " ",
      "*", "/", " ", "S", "E", "L", "E", "C", "T", " ", "1", ";">>

\* /* don't */ SELECT 1;
SampleUnpairedQuoteInComment ==
    <<"/", "*", " ", "d", "o", "n", "'", "t", " ", "*", "/", " ", "S", "E",
      "L", "E", "C", "T", " ", "1", ";">>

\* SELECT 'a\nb';\nSELECT 1;
SampleUnterminatedString ==
    <<"S", "E", "L", "E", "C", "T", " ", "'", "a", "\n", "b", "'", ";",
      "\n", "S", "E", "L", "E", "C", "T", " ", "1", ";">>

\* # c\n  #! d\nSELECT 1 # x\nFROM e;\n
SampleHash ==
    <<"#", " ", "c", "\n", " ", " ", "#", "!", " ", "d", "\n", "S", "E",
      "L", "E", "C", "T", " ", "1", " ", "#", " ", "x", "\n", "F", "R", "O",
      "M", " ", "e", ";", "\n">>

\* SELECT ';' AS s;; SELECT 2; ;
SampleSplit ==
    <<"S", "E", "L", "E", "C", "T", " ", "'", ";", "'", " ", "A", "S", " ",
      "s", ";", ";", " ", "S", "E", "L", "E", "C", "T", " ", "2", ";", " ",
      ";">>

\* SELECT '/*  x  */' AS t;
SampleSpacesInLiteral ==
    <<"S", "E", "L", "E", "C", "T", " ", "'", "/", "*", " ", " ", "x", " ",
      " ", "*", "/", "'", " ", "A", "S", " ", "t", ";">>

\* SET option = 'value=something';
SampleSetEquals ==
    <<"S", "E", "T", " ", "o", "p", "t", "i", "o", "n", " ", "=", " ", "'",
      "v", "a", "l", "u", "e", "=", "s", "o", "m", "e", "t", "h", "i", "n",
      "g", "'", ";">>

\* SET o;\nSET v = 1;\nSELECT 1;
SampleSetNoValue ==
    <<"S", "E", "T", " ", "o", ";", "\n", "S", "E", "T", " ", "v", " ", "=",
      " ", "1", ";", "\n", "S", "E", "L", "E", "C", "T", " ", "1", ";">>

ParseSamples ==
    {SampleUnterminatedComment, SampleInlineComment,
     SampleCommentRoundTrip, SampleQuoteInLineComment,
     SampleDoubledQuote, SampleDoubledQuoteMarker,
     SampleQuotedTerminator, SampleUnpairedQuoteInComment,
     SampleUnterminatedString, SampleHash,
     SampleSplit, SampleSpacesInLiteral,
     SampleSetEquals, SampleSetNoValue}

\* the tokens the text of a settings line is made of
SetTokens ==
    { <<"k">>, <<"v">>, <<"=">>, <<";">>, <<" ">>, <<"'">>, <<"\"">>, <<"\n">> }

\* the keyword that opens a settings line, as written in migration files
SetKeywords == {SET_PREFIX, <<"s", "e", "t", " ">>}

\* files that open with a settings keyword
SetInputs ==
    {keyword \o Join(tokens, <<>>) :
        keyword \in SetKeywords,
        tokens \in UNION {[1..n -> SetTokens] : n \in 0..MaxTokens}}

ParseInputs ==
    ParseSamples \cup SetInputs \cup
    {Join(tokens, <<>>) :
        tokens \in UNION {[1..n -> ParseTokens] : n \in 0..MaxTokens}}

ParsedFile == FilePool[1]

InitParse ==
    /\ \E content \in ParseInputs : files = (ParsedFile :> content)
    /\ ledger = <<>>
    /\ runs = 1
    /\ envSteps = 0
    /\ last = NoLast
    /\ pc = [r \in Runners |-> IF r = 1 THEN "loop" ELSE "idle"]
    /\ args = [r \in Runners |-> NoArgs]
    /\ atStart = [r \in Runners |-> NotStarted]
    /\ migrations = [r \in Runners |->
                        IF r = 1 THEN <<[version |-> 1, file |-> ParsedFile]>>
                        ELSE <<>>]
    /\ appliedMigrations = [r \in Runners |-> <<>>]
    /\ startLedger = [r \in Runners |-> <<>>]
    /\ idx = [r \in Runners |-> IF r = 1 THEN 1 ELSE 0]
    /\ queries = [r \in Runners |-> <<>>]
    /\ mergedSettings = [r \in Runners |-> <<>>]
    /\ qi = [r \in Runners |-> 0]
    /\ appliedList = [r \in Runners |-> <<>>]
    /\ logs = [r \in Runners |-> <<>>]
    /\ calls = [r \in Runners |->
                   IF r = 1 THEN Append(SetupCalls, Call("query")) ELSE <<>>]
    /\ inflight = [r \in Runners |-> 0]
    /\ result = [r \in Runners |-> Running]
    /\ InitParserStack

NextParse ==
    \/ BeginMigration(1)
    \/ ParseFail(1)

SpecParse == InitParse /\ [][NextParse]_vars

(***************************************************************************)
(* Vocabulary of the properties.                                           *)
(***************************************************************************)
\* the version a file name stands for: the number written before its first
\* underscore
NameVersion(file) == DigitsValue(DigitPrefix(file))

\* ^\d+_.*\.sql$
ValidName(file) ==
    /\ EndsWith(file, DotSql)
    /\ DigitPrefix(file) # <<>>
    /\ Len(file) > Len(DigitPrefix(file))
    /\ file[Len(DigitPrefix(file)) + 1] = "_"

IsPrefix(s, t) == Len(s) <= Len(t) /\ SubSeq(t, 1, Len(s)) = s

\* the statements and the settings written in a file of the executor's
\* directory: ContentA, ContentB, or one of them behind a comment line
IsContentA(content) == content \in {ContentA, CommentLine \o ContentA}

QueriesOf(content) ==
    IF IsContentA(content) THEN << <<"A">> >> ELSE << <<"B">>, <<"C">> >>

SetsOf(content) ==
    IF IsContentA(content) THEN <<>>
    ELSE (<<"a">> :> <<"2">>) @@ (<<"b">> :> <<"3">>)

\* the positions of the calls of a run that dispatch a statement of a file,
\* or the ledger insert of a version
ExecsOf(r, file) ==
    {i \in 1..Len(calls[r]) : calls[r][i].op = "exec" /\ calls[r][i].file = file}

InsertsOf(r, version) ==
    {i \in 1..Len(calls[r]) :
        calls[r][i].op = "insert" /\ calls[r][i].row.version = version}

ExecPositions(r) == {i \in 1..Len(calls[r]) : calls[r][i].op = "exec"}

InsertPositions(r) == {i \in 1..Len(calls[r]) : calls[r][i].op = "insert"}

MigrationCalls(r) ==
    {i \in 1..Len(calls[r]) : calls[r][i].op \in {"exec", "insert"}}

\* the statements of a file dispatched by a run, in dispatch order
RECURSIVE QueriesIn(_, _)
QueriesIn(cs, file) ==
    IF cs = <<>> THEN <<>>
    ELSE IF Head(cs).op = "exec" /\ Head(cs).file = file
         THEN <<Head(cs).query>> \o QueriesIn(Tail(cs), file)
         ELSE QueriesIn(Tail(cs), file)

\* the rows the run read from the ledger for a version
RowsAtRead(r, version) ==
    {startLedger[r][i] : i \in {j \in 1..Len(startLedger[r]) :
                                  startLedger[r][j].version = version}}

\* catalog entry i of run r was applied before the run, and its file has
\* the recorded checksum / another checksum
Unchanged(r, i) ==
    \E row \in RowsAtRead(r, migrations[r][i].version) :
        row.checksum = computeChecksum(files[migrations[r][i].file])

Divergent(r, i) ==
    \E row \in RowsAtRead(r, migrations[r][i].version) :
        row.checksum # computeChecksum(files[migrations[r][i].file])

\* catalog entry i of run r had no ledger row when the run read the ledger
Pending(r, i) == RowsAtRead(r, migrations[r][i].version) = {}

Finished(r) == pc[r] \in {"closing", "done"}

\* the run has read the ledger
HasRead(r) == pc[r] \in {"loop", "exec", "awaitExec", "awaitInsert"}
              \/ (Finished(r) /\ result[r] # Thrown([kind |-> "CantSelect"])
                  /\ \E i \in 1..Len(calls[r]) : calls[r][i] = Call("query"))

Entries(r) == 1..Len(migrations[r])

(***************************************************************************)
(* C1  Idempotence.  A run that repeats a successful run, with the same    *)
(* abortDivergent, the directory unchanged and the ledger as the first run *)
(* left it, dispatches no migration statement and no ledger insert and     *)
(* leaves the ledger as it was; when its directory listing and its ledger  *)
(* read succeed it ends successfully, with an empty applied list and the   *)
(* report that there is nothing to apply.                                  *)
(***************************************************************************)
EnvironmentFailure(r) ==
    /\ result[r].status = "error"
    /\ result[r].error.kind \in
          {"NoMigrationDirectory", "InvalidConnection", "FailedToConnect",
           "InvalidDatabase", "CantCreateDatabase", "InvalidTable",
           "CantCreateTable", "CantSelect"}

LastWorkCall(r) ==
    LET work == {i \in 1..Len(calls[r]) : calls[r][i].op # "close"}
    IN  calls[r][CHOOSE i \in work : \A j \in work : j <= i]

SecondOfThreeFails(r) ==
    /\ Finished(r)
    /\ result[r].status = "error"
    /\ Len(migrations[r]) >= 3
    /\ atStart[r].ledger = <<>>
    /\ ExecPositions(r) # {}
    /\ LastWorkCall(r).op = "exec"
    /\ LastWorkCall(r).file = migrations[r][2].file

PartialFailure ==
    \A r \in Runners :
        SecondOfThreeFails(r) =>
            /\ ledger = <<[version |-> migrations[r][1].version,
                           checksum |-> computeChecksum(files[migrations[r][1].file]),
                           migration_name |-> migrations[r][1].file]>>
            /\ result[r].error = [kind |-> "MigrationError",
                                  file |-> migrations[r][2].file]
            /\ \A i \in 3..Len(migrations[r]) :
                  /\ ExecsOf(r, migrations[r][i].file) = {}
                  /\ InsertsOf(r, migrations[r][i].version) = {}

PartialFailureWitness ==
    \E r \in Runners : SecondOfThreeFails(r) /\ pc[r] = "done"

(***************************************************************************)
(* C3  Skip of applied migrations.  For a catalog entry whose version had  *)
(* a ledger record with the checksum of the current file when the run read *)
(* the ledger, the run dispatches none of the file's statements and no     *)
(* ledger insert for its version.                                          *)
(***************************************************************************)
AppliedIsSkipped ==
    \A r \in Runners : \A i \in Entries(r) :
        Unchanged(r, i) =>
            /\ ExecsOf(r, migrations[r][i].file) = {}
            /\ InsertsOf(r, migrations[r][i].version) = {}

\* a finished run skipped one entry and applied another
AppliedIsSkippedWitness ==
    \E r \in Runners : \E i, j \in Entries(r) :
        /\ pc[r] = "done"
        /\ result[r] = Ok
        /\ Unchanged(r, i)
        /\ i < j
        /\ InsertsOf(r, migrations[r][j].version) # {}

(***************************************************************************)
(* C4  Divergence, abortDivergent on.  When the run reaches a catalog      *)
(* entry whose ledger record has another checksum than the file, it goes   *)
(* no further: it fails with the DivergentMigration error naming the       *)
(* recorded migration, no statement of that file and no ledger insert for  *)
(* it is dispatched, and nothing of a later entry is dispatched.           *)
(***************************************************************************)
DivergentAborts ==
    \A r \in Runners : \A i \in Entries(r) :
        (args[r].abortDivergent /\ Divergent(r, i)) =>
            /\ idx[r] <= i
            /\ \A j \in i..Len(migrations[r]) :
                  /\ ExecsOf(r, migrations[r][j].file) = {}
                  /\ InsertsOf(r, migrations[r][j].version) = {}
            /\ (idx[r] = i =>
                  \/ pc[r] = "loop"
                  \/ /\ Finished(r)
                     /\ \E row \in RowsAtRead(r, migrations[r][i].version) :
                           result[r] = Thrown([kind |-> "DivergentMigration",
                                               name |-> row.migration_name]))
            /\ (Finished(r) => result[r].status = "error")

\* the run failed at a divergent entry that a pending entry follows
DivergentAbortsWitness ==
    \E r \in Runners : \E i \in Entries(r) :
        /\ args[r].abortDivergent
        /\ Divergent(r, i)
        /\ idx[r] = i
        /\ pc[r] = "done"
        /\ i < Len(migrations[r])
        /\ Pending(r, i + 1)

(***************************************************************************)
(* C5  Divergence, abortDivergent off.  A catalog entry whose ledger       *)
(* record has another checksum than the file is warned about and passed:   *)
(* none of its statements and no ledger insert for it is ever dispatched,  *)
(* its ledger records stay as they were, the run never fails with the      *)
(* divergence error, and a run that ends successfully has dispatched every *)
(* statement and the ledger insert of every pending entry, those after the *)
(* divergent one included.                                                 *)
(***************************************************************************)
Warned(r, name) ==
    \E k \in 1..Len(logs[r]) : logs[r][k] = Log("warn", "DifferentChecksum", name)

RowsOf(rows, version) ==
    SelectSeq(rows, LAMBDA row : row.version = version)

DivergentContinues ==
    \A r \in Runners : \A i \in Entries(r) :
        (~args[r].abortDivergent /\ Divergent(r, i)) =>
            /\ ExecsOf(r, migrations[r][i].file) = {}
            /\ InsertsOf(r, migrations[r][i].version) = {}
            /\ RowsOf(ledger, migrations[r][i].version)
                  = RowsOf(startLedger[r], migrations[r][i].version)
            /\ (idx[r] > i =>
                  \E row \in RowsAtRead(r, migrations[r][i].version) :
                      Warned(r, row.migration_name))
            /\ (result[r].status = "error" =>
                  result[r].error.kind # "DivergentMigration")
            /\ (result[r] = Ok =>
                  \A j \in Entries(r) :
                      Pending(r, j) =>
                          /\ QueriesIn(calls[r], migrations[r][j].file)
                                = QueriesOf(files[migrations[r][j].file])
                          /\ InsertsOf(r, migrations[r][j].version) # {}
                          /\ RowsOf(ledger, migrations[r][j].version) # <<>>)

\* a successful run warned about an entry and applied a later one
DivergentContinuesWitness ==
    \E r \in Runners : \E i, j \in Entries(r) :
        /\ ~args[r].abortDivergent
        /\ Divergent(r, i)
        /\ i < j
        /\ Pending(r, j)
        /\ pc[r] = "done"
        /\ result[r] = Ok
        /\ InsertsOf(r, migrations[r][j].version) # {}

(***************************************************************************)
(* C6  Deleted migration.  While the ledger holds a record whose version   *)
(* is the version of no file of the directory, a run, whatever its         *)
(* abortDivergent, never enters the loop over the catalog, dispatches no   *)
(* migration statement and no ledger insert, and never succeeds; once the  *)
(* ledger is read it fails with the DeletedMigration error naming such a   *)
(* record.                                                                 *)
(***************************************************************************)
FileVersions == {NameVersion(f) : f \in {g \in DOMAIN files : ValidName(g)}}

Orphans == {i \in 1..Len(ledger) : ledger[i].version \notin FileVersions}

DeletedIsFatal ==
    \A r \in Runners :
        (pc[r] # "idle" /\ Orphans # {}) =>
            /\ MigrationCalls(r) = {}
            /\ pc[r] \notin {"loop", "exec", "awaitExec", "awaitInsert"}
            /\ result[r] # Ok
            /\ (pc[r] = "done" => result[r].status = "error")
            /\ (Finished(r) /\ HasRead(r) =>
                  \E i \in Orphans :
                      result[r] = Thrown([kind |-> "DeletedMigration",
                                          name |-> ledger[i].migration_name]))

\* a run with abortDivergent off failed so while a catalog entry was pending
DeletedIsFatalWitness ==
    \E r \in Runners : \E i \in Entries(r) :
        /\ Orphans # {}
        /\ pc[r] = "done"
        /\ ~args[r].abortDivergent
        /\ result[r].status = "error"
        /\ result[r].error.kind = "DeletedMigration"
        /\ Pending(r, i)

(***************************************************************************)
(* C7  Sequential order.  The statements a run dispatches are in ascending *)
(* version order of their migrations and, within a migration, in file      *)
(* order without gaps; the ledger insert of a migration comes after all    *)
(* its statements and before every statement of a later migration; and at  *)
(* most one call to the client is outstanding.                             *)
(***************************************************************************)
SequentialOrder ==
    \A r \in Runners :
        /\ inflight[r] <= 1
        /\ \A a, b \in ExecPositions(r) :
              a < b => NameVersion(calls[r][a].file) <= NameVersion(calls[r][b].file)
        /\ \A f \in DOMAIN files :
              IsPrefix(QueriesIn(calls[r], f), QueriesOf(files[f]))
        /\ \A p \in InsertPositions(r) :
              LET row == calls[r][p].row
              IN  /\ QueriesIn(SubSeq(calls[r], 1, p - 1), row.migration_name)
                        = QueriesOf(files[row.migration_name])
                  /\ \A a \in ExecPositions(r) :
                        /\ a < p => NameVersion(calls[r][a].file) <= row.version
                        /\ a > p => NameVersion(calls[r][a].file) > row.version

\* a run applied a two-statement migration and then another migration
SequentialOrderWitness ==
    \E r \in Runners : \E p, q \in InsertPositions(r) :
        /\ p < q
        /\ Len(QueriesOf(files[calls[r][p].row.migration_name])) = 2
        /\ pc[r] = "done"

(***************************************************************************)
(* C8  Write-once ledger.  Over runs that do not overlap, whatever their   *)
(* outcomes, the ledger never holds two records of one version, and the    *)
(* records present when a run starts stay in place and unchanged during    *)
(* the run.                                                                *)
(***************************************************************************)
WriteOnceLedger ==
    /\ \A i, j \in 1..Len(ledger) : ledger[i].version = ledger[j].version => i = j
    /\ \A r \in Runners : pc[r] # "idle" => IsPrefix(atStart[r].ledger, ledger)

\* a run that started with records warned about a divergence and added one
WriteOnceLedgerWitness ==
    \E r \in Runners :
        /\ pc[r] = "done"
        /\ atStart[r].ledger # <<>>
        /\ Len(ledger) > Len(atStart[r].ledger)
        /\ \E k \in 1..Len(logs[r]) : logs[r][k].level = "warn"

(***************************************************************************)
(* C9  Settings merge.  Every statement is dispatched with settings whose  *)
(* keys are the keys of the caller's global settings and of the file's SET *)
(* lines together, a key of the file having the file's value and any other *)
(* key the global value.                                                   *)
(***************************************************************************)
SettingsMerged ==
    \A r \in Runners : \A p \in ExecPositions(r) :
        LET used == calls[r][p].settings
            own == SetsOf(files[calls[r][p].file])
            global == args[r].globalSettings
        IN  /\ DOMAIN used = DOMAIN global \cup DOMAIN own
            /\ \A k \in DOMAIN own : used[k] = own[k]
            /\ \A k \in DOMAIN global \ DOMAIN own : used[k] = global[k]

\* global {a:1} and file {a:2, b:3} gave {a:2, b:3}
SettingsMergedWitness ==
    \E r \in Runners : \E p \in ExecPositions(r) :
        /\ args[r].globalSettings = <<"a">> :> <<"1">>
        /\ SetsOf(files[calls[r][p].file])
              = (<<"a">> :> <<"2">>) @@ (<<"b">> :> <<"3">>)
        /\ calls[r][p].settings = (<<"a">> :> <<"2">>) @@ (<<"b">> :> <<"3">>)

(***************************************************************************)
(* C10  Discovery order.  For a directory whose .sql names are all valid   *)
(* and have pairwise distinct versions, in whatever order it is listed,    *)
(* getMigrations does not fail on the names and returns exactly those      *)
(* files, each with the number its name starts with (002_c.sql is 2),      *)
(* strictly ascending by version.                                          *)
(***************************************************************************)
SqlFiles == {f \in DOMAIN files : EndsWith(f, DotSql)}

ValidDirectory ==
    /\ SqlFiles # {}
    /\ \A f \in SqlFiles : ValidName(f)
    /\ \A f, g \in SqlFiles : NameVersion(f) = NameVersion(g) => f = g

DiscoveryOrder ==
    \A r \in Runners :
        ValidDirectory =>
            /\ (pc[r] = "done" =>
                  result[r].error.kind \notin
                      {"InvalidMigrationName", "NoMigrations", "DuplicateVersion"})
            /\ (pc[r] = "createDb" =>
                  /\ \A i \in 1..(Len(migrations[r]) - 1) :
                        migrations[r][i].version < migrations[r][i + 1].version
                  /\ {migrations[r][i] : i \in Entries(r)}
                        = {[version |-> NameVersion(f), file |-> f] : f \in SqlFiles})

\* versions 1, 2 and 10 were returned in that order, 2 being 002_c.sql
DiscoveryOrderWitness ==
    \E r \in Runners :
        /\ pc[r] = "createDb"
        /\ Len(migrations[r]) = 3
        /\ migrations[r][1].version = 1
        /\ migrations[r][2] = [version |-> 2, file |-> FilePool[3]]
        /\ migrations[r][3].version = 10


(***************************************************************************)
(* C11  Duplicate versions.  As stated: whenever two .sql files of the      *)
(* directory stand for the same version (1_a.sql and 1_b.sql, 7_d.sql and   *)
(* 007_y.sql), getMigrations returns no catalog and, when the directory     *)
(* could be listed, fails with the error that names the version and two    *)
(* colliding files.  This is DuplicateVersionsAlways, which fails: beside   *)
(* a .sql file with an invalid name the error is the one about that name.  *)
(* DuplicateVersions is the statement for directories whose .sql names are *)
(* all valid.                                                              *)
(***************************************************************************)
Colliding(f, g) ==
    /\ f # g
    /\ ValidName(f)
    /\ ValidName(g)
    /\ NameVersion(f) = NameVersion(g)

HasCollision == \E f, g \in SqlFiles : Colliding(f, g)

NamesCollision(error) ==
    /\ error.kind = "DuplicateVersion"
    /\ {error.previous, error.current} \subseteq SqlFiles
    /\ Colliding(error.previous, error.current)
    /\ error.version = NameVersion(error.current)

FailsOnCollision(r) ==
    /\ pc[r] \in {"idle", "getMigrations", "done"}
    /\ pc[r] = "done" =>
          \/ result[r].error.kind = "NoMigrationDirectory"
          \/ NamesCollision(result[r].error)

DuplicateVersionsAlways ==
    \A r \in Runners : HasCollision => FailsOnCollision(r)

DuplicateVersions ==
    \A r \in Runners :
        (HasCollision /\ \A f \in SqlFiles : ValidName(f)) => FailsOnCollision(r)

\* discovery has failed naming version 7 with 7_d.sql and 007_y.sql
DuplicateVersionsWitness ==
    \E r \in Runners :
        /\ pc[r] = "done"
        /\ result[r].error.kind = "DuplicateVersion"
        /\ result[r].error.version = 7
        /\ {result[r].error.previous, result[r].error.current}
              = {<<"7", "_", "d", ".", "s", "q", "l">>,
                 <<"0", "0", "7", "_", "y", ".", "s", "q", "l">>}


(***************************************************************************)
(* C12  Discovery errors precede all database I/O.  A run that has failed  *)
(* because the directory could not be listed, held no migration, held a    *)
(* .sql file with an invalid name, or held two files of one version, has   *)
(* made no call to a database client: no ping, exec, query, insert or      *)
(* close; and no call is made before getMigrations has returned.           *)
(***************************************************************************)
DiscoveryErrors ==
    {"NoMigrationDirectory", "NoMigrations", "InvalidMigrationName",
     "DuplicateVersion"}

DiscoveryBeforeIO ==
    \A r \in Runners :
        /\ pc[r] = "getMigrations" => calls[r] = <<>>
        /\ (/\ pc[r] = "done"
            /\ result[r].status = "error"
            /\ result[r].error.kind \in DiscoveryErrors) => calls[r] = <<>>

\* a run has failed on an invalid name without a call, in a directory where
\* a run that passes discovery goes on to ping the database
DiscoveryBeforeIOWitness ==
    \E r \in Runners :
        /\ pc[r] = "done"
        /\ result[r].error.kind = "InvalidMigrationName"
        /\ calls[r] = <<>>
        /\ \E f \in SqlFiles : ValidName(f)

(***************************************************************************)
(* Vocabulary of the parsing claims                                         *)
(***************************************************************************)

\* the string tracker, in state parser before the character at index i,
\* after the character at index n of content; a character that is not part
\* of a literal leaves it as it is
RECURSIVE TrackerScan(_, _, _, _)
TrackerScan(content, i, n, parser) ==
    IF i > n THEN parser
    ELSE LET step == processChar(parser, content[i], content, i)
         IN  IF step.result
             THEN TrackerScan(content, i + 1, n, step.parser)
             ELSE TrackerScan(content, i + 1, n, parser)

\* the string tracker after the first n characters of content
TrackerAfter(content, n) == TrackerScan(content, 1, n, reset)

\* the two characters at index i of content are first and second
PairAt(content, i, first, second) ==
    CharAt(content, i) = first /\ CharAt(content, i + 1) = second

\* a /* that starts outside a string literal and that no */ follows
HasUnterminatedComment(content) ==
    \E i \in 1..Len(content) :
        /\ PairAt(content, i, "/", "*")
        /\ ~TrackerAfter(content, i - 1).inString
        /\ \A j \in (i + 2)..Len(content) : ~PairAt(content, j, "*", "/")

\* run r is past the parsing of its current file and has its statements
HasParsed(r) == pc[r] = "exec"

(***************************************************************************)
(* C13  A file in which a block comment opened outside a string literal is  *)
(* never closed is not parsed into statements: the parser raises an error   *)
(* instead of returning the statements before the comment.                  *)
(***************************************************************************)
UnterminatedCommentThrows ==
    \A r \in Runners : HasParsed(r) => ~HasUnterminatedComment(CurrentContent(r))

\* letters, the characters words are made of
Letters == {LowerCase[k] : k \in DOMAIN LowerCase} \cup
           {UpperCase[k] : k \in DOMAIN UpperCase}

\* content holds no quote, backslash or line-comment character: every /* of
\* it that is not inside an earlier comment opens a comment outside a literal
Plain(content) ==
    \A i \in DOMAIN content : content[i] \notin Quotes \cup {"\\", "-", "#"}

\* the first block comment of a plain content runs from index i to index
\* j + 1, directly between two letters
CommentBetweenWords(content, i, j) ==
    /\ Plain(content)
    /\ PairAt(content, i, "/", "*")
    /\ \A k \in 1..(i - 1) : ~PairAt(content, k, "/", "*")
    /\ j >= i + 2
    /\ PairAt(content, j, "*", "/")
    /\ \A k \in (i + 2)..(j - 1) : ~PairAt(content, k, "*", "/")
    /\ CharAt(content, i - 1) \in Letters
    /\ CharAt(content, j + 2) \in Letters

\* content with the characters from index i to index j replaced by a space
Spaced(content, i, j) ==
    SubSeq(content, 1, i - 1) \o <<" ">> \o SubSeq(content, j + 1, Len(content))

(***************************************************************************)
(* C14  A block comment written directly between two words separates them   *)
(* as whitespace does: the statements of the file are those of the file     *)
(* with a space in place of the comment.                                    *)
(***************************************************************************)
CommentSeparatesTokens ==
    \A r \in Runners :
        HasParsed(r) =>
            \A i, j \in DOMAIN CurrentContent(r) :
                CommentBetweenWords(CurrentContent(r), i, j) =>
                    queries[r] =
                        sqlQueries(Spaced(CurrentContent(r), i, j + 1)).value

\* text occurs in statement as a run of consecutive characters
Contains(statement, text) ==
    \E k \in 0..(Len(statement) - Len(text)) :
        SubSeq(statement, k + 1, k + Len(text)) = text

\* some statement of run r holds text
InStatements(r, text) ==
    \E k \in DOMAIN queries[r] : Contains(queries[r][k], text)

\* the characters from index p to index q of content hold a comment marker
HasMarker(content, p, q) ==
    \E k \in p..q :
        \/ content[k] = "#"
        \/ k < q /\ PairAt(content, k, "-", "-")
        \/ k < q /\ PairAt(content, k, "/", "*")

\* prefix starts with the word SET after its leading whitespace
SetLead(prefix) ==
    LET text == TrimStart(prefix)
    IN  Len(text) >= 3 /\ SubSeq(text, 1, 3) = <<"S", "E", "T">>

\* the characters from index p to index q of content are a string literal of
\* the first line of a file, opened after a text that holds no quote, no
\* comment marker and no SET keyword, closed on the same line, and holding a
\* comment marker between its delimiters
MarkedLiteral(content, p, q) ==
    /\ content[p] \in Quotes
    /\ \A k \in 1..(p - 1) :
           content[k] \notin Quotes \cup {"\\", "-", "#", "/", "*", "\n", "\r"}
    /\ ~SetLead(SubSeq(content, 1, p - 1))
    /\ q > p + 1
    /\ \A k \in p..(q - 1) : TrackerAfter(content, k).inString
    /\ ~TrackerAfter(content, q).inString
    /\ \A k \in p..q : content[k] \notin {"\n", "\r"}
    /\ HasMarker(content, p + 1, q - 1)

(***************************************************************************)
(* C15  A string literal that holds a comment marker is kept verbatim: the  *)
(* literal, delimiters included, is found character for character in a      *)
(* statement of the file.                                                   *)
(***************************************************************************)
MarkersInLiteralsKept ==
    \A r \in Runners :
        HasParsed(r) =>
            \A p, q \in DOMAIN CurrentContent(r) :
                MarkedLiteral(CurrentContent(r), p, q) =>
                    InStatements(r, SubSeq(CurrentContent(r), p, q))

\* the character at index n of content is a delimiter of the literal the
\* tracker is in, reached unescaped, and the next character is the same
DoubledQuoteAt(content, n) ==
    LET parser == TrackerAfter(content, n - 1)
    IN  /\ parser.inString
        /\ ~parser.escaped
        /\ content[n] = parser.stringChar
        /\ CharAt(content, n + 1) = parser.stringChar

\* the statement SELECT 'it''s ok'
DoubledQuoteStatement == SubSeq(SampleDoubledQuote, 1, Len(SampleDoubledQuote) - 1)

\* the literal 'it''s -- x' of SampleDoubledQuoteMarker
DoubledQuoteMarkerLiteral == SubSeq(SampleDoubledQuoteMarker, 8, 19)

(***************************************************************************)
(* C16  Inside a literal a delimiter followed at once by the same delimiter *)
(* does not end the literal: the tracker is inside the same literal after   *)
(* each of the two characters.  The file SELECT 'it''s ok'; is the single   *)
(* statement SELECT 'it''s ok', and a -- after a doubled quote and before   *)
(* the closing quote stays in the statement.                                *)
(***************************************************************************)
DoubledQuoteEscape ==
    /\ \A f \in DOMAIN files : \A n \in DOMAIN files[f] :
           DoubledQuoteAt(files[f], n) =>
               /\ TrackerAfter(files[f], n).inString
               /\ TrackerAfter(files[f], n + 1).inString
               /\ TrackerAfter(files[f], n + 1).stringChar = files[f][n]
    /\ \A r \in Runners :
           HasParsed(r) =>
               /\ CurrentContent(r) = SampleDoubledQuote =>
                      queries[r] = <<DoubledQuoteStatement>>
               /\ CurrentContent(r) = SampleDoubledQuoteMarker =>
                      /\ Len(queries[r]) = 1
                      /\ Contains(queries[r][1], DoubledQuoteMarkerLiteral)

DoubledQuoteEscapeWitness ==
    /\ pc[1] = "exec"
    /\ CurrentContent(1) = SampleDoubledQuote
    /\ \E n \in DOMAIN SampleDoubledQuote : DoubledQuoteAt(SampleDoubledQuote, n)
    /\ queries[1] = <<DoubledQuoteStatement>>

\* the index of the next character equal to quote from index k of content
\* on, or an index past the end when there is none
RECURSIVE NextQuote(_, _, _)
NextQuote(content, quote, k) ==
    IF k > Len(content) \/ content[k] = quote THEN k
    ELSE NextQuote(content, quote, k + 1)

\* the index of the * of the first terminator of a comment, from index k of
\* content on, that does not lie between a quote character of the comment
\* and the next quote character of the same kind; an index past the end when
\* there is none
RECURSIVE FirstUnquotedEnd(_, _)
FirstUnquotedEnd(content, k) ==
    IF k > Len(content) THEN k
    ELSE IF content[k] \in Quotes /\ NextQuote(content, content[k], k + 1) <= Len(content)
    THEN FirstUnquotedEnd(content, NextQuote(content, content[k], k + 1) + 1)
    ELSE IF PairAt(content, k, "*", "/") THEN k
    ELSE FirstUnquotedEnd(content, k + 1)

\* content starts with a block comment and holds no backslash
LeadingComment(content) ==
    /\ PairAt(content, 1, "/", "*")
    /\ \A k \in DOMAIN content : content[k] # "\\"
    /\ FirstUnquotedEnd(content, 3) <= Len(content)

\* what follows the leading block comment of content
AfterLeadingComment(content) ==
    SubSeq(content, FirstUnquotedEnd(content, 3) + 2, Len(content))

(***************************************************************************)
(* C17  A block comment ends at its first terminator that does not lie      *)
(* between a pair of matching quote characters of the comment, and what     *)
(* follows is parsed as usual: the statements of a file that starts with a  *)
(* block comment are the statements of the text after that terminator.      *)
(***************************************************************************)
CommentEndsOutsideQuotes ==
    \A r \in Runners :
        (HasParsed(r) /\ LeadingComment(CurrentContent(r))) =>
            queries[r] = sqlQueries(AfterLeadingComment(CurrentContent(r))).value

\* a line comment starts at index i of line: a -- outside any literal, or a
\* # outside any literal with nothing but whitespace before it
LineCommentAt(line, i) ==
    /\ ~TrackerAfter(line, i - 1).inString
    /\ \/ PairAt(line, i, "-", "-")
       \/ line[i] = "#" /\ \A k \in 1..(i - 1) : IsSpace(line[k])

\* the characters of line before its comment
BeforeComment(line) ==
    LET starts == {i \in DOMAIN line : LineCommentAt(line, i)}
    IN  IF starts = {} THEN line
        ELSE SubSeq(line, 1, Min(starts) - 1)

\* line ends inside a string literal
EndsInString(line) ==
    TrackerAfter(BeforeComment(line), Len(BeforeComment(line))).inString

\* some line of content, its block comments removed, ends inside a literal
LineEndsInString(content) ==
    LET lines == SplitLines(removeBlockComments(content), <<>>)
    IN  \E n \in DOMAIN lines : EndsInString(lines[n])

\* run r has met its current file: it parsed it or failed on it
AtCurrent(r) == pc[r] \in {"exec", "closing"} /\ idx[r] \in DOMAIN migrations[r]

(***************************************************************************)
(* C18  A file one of whose lines, block comments removed, ends inside a    *)
(* string literal is never parsed into statements: the run fails on it with *)
(* the unterminated-string error and has no statement of it.                *)
(***************************************************************************)
UnterminatedStringFails ==
    \A r \in Runners :
        (AtCurrent(r) /\ LineEndsInString(CurrentContent(r))) =>
            /\ ~HasParsed(r)
            /\ result[r] = Thrown(UnterminatedString)
            /\ queries[r] = <<>>

UnterminatedStringFailsWitness ==
    /\ pc[1] = "closing"
    /\ CurrentContent(1) = SampleUnterminatedString
    /\ LineEndsInString(SampleUnterminatedString)
    /\ ~EndsInString(<<"S", "E", "L", "E", "C", "T", " ", "1", ";">>)
    /\ result[1] = Thrown(UnterminatedString)

\* content holds no block comment and no SET keyword: its lines are those
\* the line-comment pass is given, and all of them are statement text
PlainLines(content) ==
    /\ ~Contains(content, <<"/", "*">>)
    /\ ~Contains(content, <<"S", "E", "T">>)

\* the length of the longest of a sequence of texts
MaxTextLen(texts) ==
    IF texts = <<>> THEN 0
    ELSE CHOOSE n \in {Len(texts[k]) : k \in DOMAIN texts} :
             \A k \in DOMAIN texts : Len(texts[k]) <= n

\* the places of the character ch in a sequence of texts
Places(texts, ch) ==
    {place \in (DOMAIN texts) \X (1..MaxTextLen(texts)) :
        place[2] <= Len(texts[place[1]]) /\ texts[place[1]][place[2]] = ch}

\* the lines with the line at index n cut before index k
CutLine(lines, n, k) == [lines EXCEPT ![n] = SubSeq(@, 1, k - 1)]

\* the statement SELECT 1 # x FROM e
HashStatement ==
    <<"S", "E", "L", "E", "C", "T", " ", "1", " ", "#", " ", "x", " ",
      "F", "R", "O", "M", " ", "e">>

(***************************************************************************)
(* C19  A # outside any literal starts a comment exactly when only          *)
(* whitespace precedes it on its line: the statements are then those of     *)
(* the file without the rest of that line, and every other # that is not    *)
(* in a comment is kept in the statements.                                  *)
(***************************************************************************)
HashComments ==
    \A r \in Runners :
        (HasParsed(r) /\ PlainLines(CurrentContent(r))) =>
            LET lines == SplitLines(CurrentContent(r), <<>>)
                kept == [n \in DOMAIN lines |-> BeforeComment(lines[n])]
            IN  /\ Cardinality(Places(queries[r], "#")) =
                       Cardinality(Places(kept, "#"))
                /\ \A n \in DOMAIN lines : \A k \in DOMAIN lines[n] :
                       (lines[n][k] = "#" /\ k = Len(kept[n]) + 1) =>
                           queries[r] =
                               sqlQueries(Join(CutLine(lines, n, k), <<"\n">>)).value

HashCommentsWitness ==
    /\ pc[1] = "exec"
    /\ CurrentContent(1) = SampleHash
    /\ PlainLines(SampleHash)
    /\ queries[1] = <<HashStatement>>

\* content holds no comment marker and no SET keyword: all of it is
\* statement text
PlainText(content) ==
    /\ \A k \in DOMAIN content : content[k] \notin {"-", "#", "/"}
    /\ ~Contains(content, <<"S", "E", "T">>)

\* the indexes of the delimiters of content that lie outside any literal
Delimiters(content) ==
    {k \in DOMAIN content :
        content[k] = ";" /\ ~TrackerAfter(content, k - 1).inString}

\* the segments of content between its delimiters, from index start on,
\* each with its whitespace collapsed and trimmed, the empty ones left out
RECURSIVE Segments(_, _)
Segments(content, start) ==
    IF start > Len(content) THEN <<>>
    ELSE LET next == Min({k \in Delimiters(content) : k >= start}
                         \cup {Len(content) + 1})
             text == Trim(CollapseSpace(SubSeq(content, start, next - 1)))
         IN  (IF text = <<>> THEN <<>> ELSE <<text>>)
                 \o Segments(content, next + 1)

\* the statements SELECT ';' AS s and SELECT 2
SplitStatements ==
    <<SubSeq(SampleSplit, 1, 15), SubSeq(SampleSplit, 19, 26)>>

(***************************************************************************)
(* C20  The statements of a file are cut at the ; outside string literals   *)
(* only: no statement is empty or has whitespace at its ends, none holds a  *)
(* ; outside a literal, and the statements of a file without comments and   *)
(* SET lines are, in order, its non-empty trimmed segments between those    *)
(* delimiters.                                                              *)
(***************************************************************************)
StatementSplitting ==
    \A r \in Runners :
        HasParsed(r) =>
            /\ \A n \in DOMAIN queries[r] :
                   /\ queries[r][n] # <<>>
                   /\ Trim(queries[r][n]) = queries[r][n]
                   /\ Delimiters(queries[r][n]) = {}
            /\ PlainText(CurrentContent(r)) =>
                   queries[r] = Segments(CurrentContent(r), 1)

StatementSplittingWitness ==
    /\ pc[1] = "exec"
    /\ CurrentContent(1) = SampleSplit
    /\ PlainText(SampleSplit)
    /\ Cardinality(Delimiters(SampleSplit)) = 4
    /\ queries[1] = SplitStatements

\* content holds no comment marker: all its lines are statement or
\* settings text
NoMarkers(content) ==
    \A k \in DOMAIN content : content[k] \notin {"-", "#", "/"}

\* line, trimmed, starts with SET and a space, in any letter case
IsSetLine(line) == StartsWith(toUpperCase(Trim(line)), SET_PREFIX)

\* what follows the SET keyword on the settings lines of content, joined by
\* spaces
SetText(content) ==
    LET setLines == SelectSeq(SplitLines(content, <<>>), IsSetLine)
    IN  Join([n \in DOMAIN setLines |->
                 SubSeq(Trim(setLines[n]), Len(SET_PREFIX) + 1,
                        Len(Trim(setLines[n])))], <<" ">>)

\* the segments of text between its delimiters outside literals, from index
\* start on, trimmed, the empty ones left out
RECURSIVE SetSegments(_, _)
SetSegments(text, start) ==
    IF start > Len(text) THEN <<>>
    ELSE LET next == Min({k \in Delimiters(text) : k >= start}
                         \cup {Len(text) + 1})
             segment == Trim(SubSeq(text, start, next - 1))
         IN  (IF segment = <<>> THEN <<>> ELSE <<segment>>)
                 \o SetSegments(text, next + 1)

\* the indexes of the = of segment that lie outside any literal
EqualsOutside(segment) ==
    {k \in DOMAIN segment :
        segment[k] = "=" /\ ~TrackerAfter(segment, k - 1).inString}

\* the key of a segment: what stands before its first = outside a literal
SettingKey(segment) ==
    Trim(SubSeq(segment, 1, Min(EqualsOutside(segment)) - 1))

\* value without the one pair of single or double quotes it is wrapped in
StripPair(value) ==
    IF Len(value) >= 2 /\ value[1] \in {"'", "\""} /\ value[Len(value)] = value[1]
    THEN SubSeq(value, 2, Len(value) - 1)
    ELSE value

\* the value of a segment: what stands after its first = outside a literal
SettingValue(segment) ==
    StripPair(Trim(SubSeq(segment, Min(EqualsOutside(segment)) + 1,
                          Len(segment))))

\* the segments that assign: those with an = outside a literal and a key
Assigning(segments) ==
    {n \in DOMAIN segments :
        EqualsOutside(segments[n]) # {} /\ SettingKey(segments[n]) # <<>>}

\* the greatest element of a non-empty set of numbers
Greatest(S) == CHOOSE x \in S : \A y \in S : y <= x

\* the mapping the segments give: for every key the value of the last
\* segment that assigns it
SettingsOf(segments) ==
    [key \in {SettingKey(segments[n]) : n \in Assigning(segments)} |->
        SettingValue(segments[Greatest({n \in Assigning(segments) :
                                            SettingKey(segments[n]) = key})])]

(***************************************************************************)
(* C21  The settings of a file are those of its SET segments: each segment  *)
(* is split at its first = outside a string literal, key and value are      *)
(* trimmed, a value wrapped in a pair of single or double quotes loses that *)
(* pair, and a segment without = gives no setting and no error.             *)
(***************************************************************************)
SettingsExtraction ==
    \A r \in Runners :
        (HasParsed(r) /\ NoMarkers(CurrentContent(r))) =>
            mergedSettings[r] =
                MergeSettings(args[r].globalSettings,
                              SettingsOf(SetSegments(SetText(CurrentContent(r)), 1)))

SettingsExtractionWitness ==
    /\ pc[1] = "exec"
    /\ CurrentContent(1) = SampleSetEquals
    /\ mergedSettings[1] =
           (<<"o", "p", "t", "i", "o", "n">> :>
                <<"v", "a", "l", "u", "e", "=", "s", "o", "m", "e", "t", "h", "i",
                  "n", "g">>)

\* line is not a settings line
IsStatementLine(line) == ~IsSetLine(line)

\* content without its settings lines
StatementText(content) ==
    Join(SelectSeq(SplitLines(content, <<>>), IsStatementLine), <<"\n">>)

(***************************************************************************)
(* C22  The lines collected as settings lines, those that start with SET    *)
(* and a space in any letter case once trimmed, are the lines left out of   *)
(* the statements: the statements of a file are those of its other lines.   *)
(***************************************************************************)
SetLinesAreSettings ==
    \A r \in Runners :
        (HasParsed(r) /\ NoMarkers(CurrentContent(r))) =>
            queries[r] = Segments(StatementText(CurrentContent(r)), 1)

\* the characters from index p to index q of content are a string literal of
\* the first line of a file, opened after a text that holds no quote, no
\* comment marker and no SET keyword, and closed on the same line
LiteralOnFirstLine(content, p, q) ==
    /\ content[p] \in Quotes
    /\ \A k \in 1..(p - 1) :
           content[k] \notin Quotes \cup {"\\", "-", "#", "/", "*", "\n", "\r"}
    /\ ~SetLead(SubSeq(content, 1, p - 1))
    /\ q > p
    /\ \A k \in p..(q - 1) : TrackerAfter(content, k).inString
    /\ ~TrackerAfter(content, q).inString
    /\ \A k \in p..q : content[k] \notin {"\n", "\r"}

(***************************************************************************)
(* C23  A string literal that opens and closes on one line reaches the      *)
(* statements unchanged: the literal is found character for character in a  *)
(* statement of the file, whitespace runs included.                         *)
(***************************************************************************)
StringContentOpaque ==
    \A r \in Runners :
        HasParsed(r) =>
            \A p, q \in DOMAIN CurrentContent(r) :
                LiteralOnFirstLine(CurrentContent(r), p, q) =>
                    InStatements(r, SubSeq(CurrentContent(r), p, q))

\* ---------------------------------------------------------------------------
\* The report of what a run applied

\* the ledger records inserted since the run began
InsertedInRun(r) == SubSeq(ledger, Len(atStart[r].ledger) + 1, Len(ledger))

NamesOf(rows) == [i \in 1..Len(rows) |-> rows[i].migration_name]

LastLog(r) == logs[r][Len(logs[r])]

StatementFailed(r) ==
    /\ Finished(r)
    /\ result[r].status = "error"
    /\ result[r].error.kind = "MigrationError"

FullPass(r) == Finished(r) /\ result[r] = Ok

\* the list is what was inserted, and a full pass reports it
ListIsInserted(r) ==
    /\ appliedList[r] = NamesOf(InsertedInRun(r))
    /\ FullPass(r) =>
          /\ logs[r] # <<>>
          /\ LastLog(r) = IF appliedList[r] # <<>>
                          THEN Log("info", "SuccessfullyApplied", Len(appliedList[r]))
                          ELSE Log("info", "NoMigrationsToApply", 0)

MigrationOf(file) == CollectMigrations(<<file>>, <<>>).migrations[1]

\* the files earlier runs have applied
RecordedFiles == {FilePool[1], FilePool[2]}

\* the records earlier runs can have left: of a file as it was created, or
\* as it was after an edit
ContentsOf(file) == {InitialContent(file), Edited(InitialContent(file))}

StatusRows ==
    UNION {{LedgerRow(MigrationOf(f), computeChecksum(content)) :
               content \in ContentsOf(f)} : f \in RecordedFiles}

MaxRows == 2

StatusLedgers == UNION {[1..n -> StatusRows] : n \in 0..MaxRows}

Returned(value) == [status |-> "ok", value |-> value]

\* a directory whose files were or were not edited since, and a ledger that
\* earlier runs have written; getMigrationStatus has just been called
InitStatus ==
    /\ \E present \in SUBSET SpecFiles :
          files \in {dir \in [present -> UNION {ContentsOf(f) : f \in present}] :
                        \A f \in present : dir[f] \in ContentsOf(f)}
    /\ ledger \in StatusLedgers
    /\ runs = 1
    /\ envSteps = 0
    /\ last = NoLast
    /\ pc = [r \in Runners |-> IF r = 1 THEN "getMigrationStatus" ELSE "idle"]
    /\ args = [r \in Runners |-> NoArgs]
    /\ atStart = [r \in Runners |-> NotStarted]
    /\ migrations = [r \in Runners |-> <<>>]
    /\ appliedMigrations = [r \in Runners |-> <<>>]
    /\ startLedger = [r \in Runners |-> <<>>]
    /\ idx = [r \in Runners |-> 0]
    /\ queries = [r \in Runners |-> <<>>]
    /\ mergedSettings = [r \in Runners |-> <<>>]
    /\ qi = [r \in Runners |-> 0]
    /\ appliedList = [r \in Runners |-> <<>>]
    /\ logs = [r \in Runners |-> <<>>]
    /\ calls = [r \in Runners |-> <<>>]
    /\ inflight = [r \in Runners |-> 0]
    /\ result = [r \in Runners |-> Running]
    /\ InitParserStack

StatusFrame ==
    UNCHANGED <<files, ledger, runs, envSteps, last, args, atStart, runLocals,
                logs, inflight>>

\* no host in the configuration: thrown before anything is read
StatusNoHost(r) ==
    /\ pc[r] = "getMigrationStatus"
    /\ Fail(r, [kind |-> "HostRequired"])
    /\ UNCHANGED <<migrations, calls>>
    /\ StatusFrame

StatusGetMigrationsFail(r) ==
    /\ pc[r] = "getMigrationStatus"
    /\ \E listing \in Perms(DOMAIN files) :
          LET found == GetMigrations(listing)
          IN  /\ ~found.ok
              /\ Fail(r, found.error)
    /\ UNCHANGED <<migrations, calls>>
    /\ StatusFrame

StatusGetMigrationsOk(r) ==
    /\ pc[r] = "getMigrationStatus"
    /\ \E listing \in Perms(DOMAIN files) :
          LET found == GetMigrations(listing)
          IN  /\ found.ok
              /\ migrations' = Set(migrations, r, found.migrations)
    /\ pc' = Set(pc, r, "statusConnect")
    /\ UNCHANGED <<calls, result>>
    /\ StatusFrame
    /\ UNCHANGED poolVars

\* connect throws on an invalid timeout or unreadable TLS files: no client
StatusConnectFail(r) ==
    /\ pc[r] = "statusConnect"
    /\ Fail(r, [kind |-> "InvalidConnection"])
    /\ UNCHANGED <<migrations, calls>>
    /\ StatusFrame

\* verifyConnection: the ping fails and the client is closed
StatusVerifyConnectionFail(r) ==
    /\ pc[r] = "statusConnect"
    /\ calls' = Set(calls, r, calls[r] \o <<Call("ping"), Call("close")>>)
    /\ Fail(r, [kind |-> "FailedToConnect"])
    /\ UNCHANGED migrations
    /\ StatusFrame
    /\ UNCHANGED poolVars

StatusVerifyConnectionOk(r) ==
    /\ pc[r] = "statusConnect"
    /\ calls' = Set(calls, r, Append(calls[r], Call("ping")))
    /\ pc' = Set(pc, r, "statusTable")
    /\ UNCHANGED <<migrations, result>>
    /\ StatusFrame
    /\ UNCHANGED poolVars

AccessFailed == [kind |-> "FailedToAccessTable"]

\* initMigrationTable: validateTableName or validateTableEngine throws; the
\* catch closes the client
StatusTableInvalid(r) ==
    /\ pc[r] = "statusTable"
    /\ calls' = Set(calls, r, Append(calls[r], Call("close")))
    /\ Fail(r, AccessFailed)
    /\ UNCHANGED migrations
    /\ StatusFrame
    /\ UNCHANGED poolVars

\* initMigrationTable: CREATE TABLE IF NOT EXISTS fails
StatusTableFail(r) ==
    /\ pc[r] = "statusTable"
    /\ calls' = Set(calls, r, calls[r] \o <<Call("createTable"), Call("close")>>)
    /\ Fail(r, AccessFailed)
    /\ UNCHANGED migrations
    /\ StatusFrame
    /\ UNCHANGED poolVars

StatusTableOk(r) ==
    /\ pc[r] = "statusTable"
    /\ calls' = Set(calls, r, Append(calls[r], Call("createTable")))
    /\ pc' = Set(pc, r, "statusQuery")
    /\ UNCHANGED <<migrations, result>>
    /\ StatusFrame
    /\ UNCHANGED poolVars

\* a slip: the catch rethrows without closing the client
StatusQueryFailLeaks(r) ==
    /\ pc[r] = "statusQuery"
    /\ calls' = Set(calls, r, Append(calls[r], Call("query")))
    /\ Fail(r, AccessFailed)
    /\ UNCHANGED migrations
    /\ StatusFrame
    /\ UNCHANGED poolVars

\* getAppliedMigrations: the SELECT fails
StatusQueryFail(r) ==
    /\ pc[r] = "statusQuery"
    /\ calls' = Set(calls, r, calls[r] \o <<Call("query"), Call("close")>>)
    /\ Fail(r, AccessFailed)
    /\ UNCHANGED migrations
    /\ StatusFrame
    /\ UNCHANGED poolVars

\* the rows arrive and the client is closed
StatusQueryOk(r) ==
    /\ pc[r] = "statusQuery"
    /\ calls' = Set(calls, r, calls[r] \o <<Call("query"), Call("close")>>)
    /\ \E applied \in AppliedMaps(ledger) :
          appliedMigrations' = Set(appliedMigrations, r, applied)
    /\ pc' = Set(pc, r, "statusList")
    /\ UNCHANGED <<files, ledger, runs, envSteps, last, args, atStart,
                   migrations, startLedger, idx, queries, mergedSettings, qi,
                   appliedList, logs, inflight, result>>
    /\ UNCHANGED poolVars

\* the entry of one catalog file
StatusEntry(migration, applied) ==
    IF migration.version \in DOMAIN applied
    THEN [version |-> migration.version,
          file |-> migration.file,
          applied |-> TRUE,
          checksum |-> applied[migration.version].checksum,
          checksumMatch |-> applied[migration.version].checksum
                               = computeChecksum(files[migration.file])]
    ELSE [version |-> migration.version,
          file |-> migration.file,
          applied |-> FALSE]

\* the loop over the catalog
StatusList(r) ==
    /\ pc[r] = "statusList"
    /\ result' = Set(result, r,
                    Returned([i \in 1..Len(migrations[r]) |->
                                 StatusEntry(migrations[r][i],
                                             appliedMigrations[r])]))
    /\ pc' = Set(pc, r, "done")
    /\ UNCHANGED <<migrations, calls>>
    /\ StatusFrame
    /\ UNCHANGED poolVars

NextStatus ==
    \/ StatusNoHost(1)
    \/ StatusGetMigrationsFail(1)
    \/ StatusGetMigrationsOk(1)
    \/ StatusConnectFail(1)
    \/ StatusVerifyConnectionFail(1)
    \/ StatusVerifyConnectionOk(1)
    \/ StatusTableInvalid(1)
    \/ StatusTableFail(1)
    \/ StatusTableOk(1)
    \/ StatusQueryFail(1)
    \/ StatusQueryOk(1)
    \/ StatusList(1)

SpecStatus == InitStatus /\ [][NextStatus]_vars

\* ---------------------------------------------------------------------------
\* What getMigrationStatus returns

StatusReturned(r) == pc[r] = "done" /\ result[r].status = "ok"

Recorded(version) == {i \in 1..Len(ledger) : ledger[i].version = version}

\* every client call of the run, and whether the last of them is the close
ClientClosed(r) ==
    calls[r] # <<>> =>
        /\ calls[r][Len(calls[r])].op = "close"
        /\ Cardinality({i \in 1..Len(calls[r]) : calls[r][i].op = "close"}) = 1

LedgerReadStarted(r) ==
    \E i \in 1..Len(calls[r]) : calls[r][i].op \in {"createTable", "query"}

\* C25 getMigrationStatus returns one entry per catalog file, in ascending
\* version order; an entry is applied exactly when the ledger holds a record
\* of its version, and an applied entry carries the checksum of such a record
\* and says whether it equals the checksum of the file as it is now; the
\* client is closed whether the ledger read succeeds or fails
MigrationStatus ==
    \A r \in Runners :
        /\ pc[r] = "done" => ClientClosed(r)
        /\ (pc[r] = "done" /\ LedgerReadStarted(r)) =>
              calls[r][Len(calls[r])].op = "close"
        /\ StatusReturned(r) =>
              LET list == result[r].value
              IN  /\ {list[i].file : i \in 1..Len(list)} = DOMAIN files
                  /\ Len(list) = Cardinality(DOMAIN files)
                  /\ \A i \in 1..Len(list) - 1 :
                        list[i].version < list[i + 1].version
                  /\ \A i \in 1..Len(list) :
                        /\ list[i].version = MigrationOf(list[i].file).version
                        /\ list[i].applied <=> Recorded(list[i].version) # {}
                        /\ list[i].applied =>
                              \E j \in Recorded(list[i].version) :
                                 /\ list[i].checksum = ledger[j].checksum
                                 /\ list[i].checksumMatch <=>
                                       ledger[j].checksum
                                          = computeChecksum(files[list[i].file])

\* a status of two files: one applied and edited since, one not applied
MigrationStatusWitness ==
    \E r \in Runners :
        /\ StatusReturned(r)
        /\ ClientClosed(r)
        /\ Len(result[r].value) = 2
        /\ \E i, j \in 1..2 :
              /\ result[r].value[i].applied
              /\ ~result[r].value[i].checksumMatch
              /\ ~result[r].value[j].applied

\* the ledger read fails and the client has been closed
StatusReadFailsClosed ==
    \E r \in Runners :
        /\ pc[r] = "done"
        /\ result[r] = Thrown(AccessFailed)
        /\ calls[r] = <<Call("ping"), Call("createTable"), Call("query"),
                        Call("close")>>

\* ---------------------------------------------------------------------------
\* Clients opened and closed

ClientOf(call) == IF "client" \in DOMAIN call THEN call.client ELSE "runMigration"

CallsOn(r, client) ==
    {i \in 1..Len(calls[r]) : ClientOf(calls[r][i]) = client}

\* the last call made on the client is its close
ClosedLast(r, client) ==
    \E i \in CallsOn(r, client) :
        /\ calls[r][i].op = "close"
        /\ \A j \in CallsOn(r, client) : j <= i

\* C26 when runMigration has returned or thrown, every client it or createDb
\* opened and used has been closed, on every path
NoClientLeak ==
    \A r \in Runners :
        pc[r] = "done" =>
            \A client \in {"createDb", "runMigration"} :
                CallsOn(r, client) # {} => ClosedLast(r, client)

\* ---------------------------------------------------------------------------
\* A statement fails inside a file

\* the positions in the call log after position p
After(r, p) == {i \in 1..Len(calls[r]) : i > p}

\* the position of the statement that failed: the last exec of the run
FailedAt(r) == CHOOSE p \in ExecPositions(r) : \A q \in ExecPositions(r) : q <= p

\* C27 when statement k of a pending migration fails, the statements of the
\* file that were dispatched are its first k, in order; nothing is called
\* after the failed statement but the close of the client (no later statement,
\* no compensating call, no insert); and the ledger holds no record of the
\* file's version, so the file is pending when the next run reads the ledger
FailureInsideFile ==
    \A r \in Runners :
        StatementFailed(r) =>
            LET file == result[r].error.file
                k == qi[r]
            IN  /\ file = Current(r).file
                /\ k \in 1..Len(queries[r])
                /\ QueriesIn(calls[r], file) = SubSeq(queries[r], 1, k)
                /\ calls[r][FailedAt(r)] =
                      ExecCall(file, queries[r][k], mergedSettings[r])
                /\ \A i \in After(r, FailedAt(r)) : calls[r][i].op = "close"
                /\ InsertsOf(r, Current(r).version) = {}
                /\ Recorded(Current(r).version) = {}

\* the first of two statements fails: the second is never sent
FailureInsideFileWitness ==
    \E r \in Runners :
        /\ StatementFailed(r)
        /\ pc[r] = "done"
        /\ qi[r] = 1
        /\ Len(queries[r]) = 2
        /\ Cardinality(ExecsOf(r, Current(r).file)) = 1

(***************************************************************************)
(* applyMigrations over a directory some of whose files do not parse: the  *)
(* loop from the first catalog entry to the end of the run.                *)
(***************************************************************************)
\* what the files of such a directory hold
BrokenContents ==
    {ContentA, SampleUnterminatedString, SampleUnterminatedComment}

\* the catalog of a directory that holds every file of the pool
FullCatalog ==
    GetMigrations(CHOOSE listing \in Perms(SpecFiles) : TRUE).migrations

InitBroken ==
    /\ files \in [SpecFiles -> BrokenContents]
    /\ ledger = <<>>
    /\ runs = 1
    /\ envSteps = 0
    /\ last = NoLast
    /\ pc = [r \in Runners |-> IF r = 1 THEN "loop" ELSE "idle"]
    /\ args = [r \in Runners |-> NoArgs]
    /\ atStart = [r \in Runners |-> NotStarted]
    /\ migrations = [r \in Runners |-> IF r = 1 THEN FullCatalog ELSE <<>>]
    /\ appliedMigrations = [r \in Runners |-> <<>>]
    /\ startLedger = [r \in Runners |-> <<>>]
    /\ idx = [r \in Runners |-> IF r = 1 THEN 1 ELSE 0]
    /\ queries = [r \in Runners |-> <<>>]
    /\ mergedSettings = [r \in Runners |-> <<>>]
    /\ qi = [r \in Runners |-> 0]
    /\ appliedList = [r \in Runners |-> <<>>]
    /\ logs = [r \in Runners |-> <<>>]
    /\ calls = [r \in Runners |->
                   IF r = 1 THEN Append(SetupCalls, Call("query")) ELSE <<>>]
    /\ inflight = [r \in Runners |-> 0]
    /\ result = [r \in Runners |-> Running]
    /\ InitParserStack

NextBroken ==
    \/ BeginMigration(1)
    \/ ParseFail(1)
    \/ ExecDispatch(1)
    \/ ExecOk(1)
    \/ ExecFail(1)
    \/ InsertDispatch(1)
    \/ InsertOk(1)
    \/ InsertFail(1)
    \/ LoopExit(1)
    \/ Close(1)

SpecBroken == InitBroken /\ [][NextBroken]_vars

\* ---------------------------------------------------------------------------
\* A file of a pending migration does not parse

ParseErrors == {UnterminatedString, [kind |-> "UnterminatedBlockComment"]}

ParseFailed(r) ==
    /\ Finished(r)
    /\ result[r].status = "error"
    /\ result[r].error \in ParseErrors

\* C28 when the parse of a pending migration's file raises an unterminated
\* string or unterminated comment error, no statement of the file is
\* dispatched and no record of it is written, no later migration is executed
\* or recorded, nothing but the close is called afterwards, and the ledger
\* holds the records of the migrations applied earlier in the run
ParseErrorStops ==
    \A r \in Runners :
        ParseFailed(r) =>
            /\ \A i \in idx[r]..Len(migrations[r]) :
                  /\ ExecsOf(r, migrations[r][i].file) = {}
                  /\ InsertsOf(r, migrations[r][i].version) = {}
                  /\ Recorded(migrations[r][i].version) = {}
            /\ ledger = startLedger[r] \o
                  [i \in 1..Len(appliedList[r]) |->
                      LedgerRow(migrations[r][i],
                                computeChecksum(files[migrations[r][i].file]))]
            /\ Len(appliedList[r]) = idx[r] - 1
            /\ \A i \in CallsOn(r, "runMigration") :
                  calls[r][i].op = "close" => i = Len(calls[r])
            /\ pc[r] = "done" => calls[r][Len(calls[r])] = Call("close")

\* the second migration of a run does not parse after the first was recorded
ParseErrorStopsWitness ==
    \E r \in Runners :
        /\ ParseFailed(r)
        /\ pc[r] = "done"
        /\ idx[r] = 2
        /\ Len(ledger) = 1
        /\ ledger[1].version = migrations[r][1].version
        /\ Len(migrations[r]) >= 3

(***************************************************************************)
(* Two runs of applyMigrations at once, on one directory and one ledger.   *)
(* Each has its own client and has come to applyMigrations; every await is *)
(* a point where the other run can go on.  The directory does not change,  *)
(* so no record is divergent and none lacks its file.                      *)
(***************************************************************************)
OverlapFiles == {FilePool[1], FilePool[2]}

InitOverlap ==
    /\ \E present \in SUBSET OverlapFiles :
          /\ present # {}
          /\ files = [f \in present |-> InitialContent(f)]
    /\ ledger = <<>>
    /\ runs = 2
    /\ envSteps = 0
    /\ last = NoLast
    /\ pc = [r \in Runners |-> "applyMigrations"]
    /\ args = [r \in Runners |-> NoArgs]
    /\ atStart = [r \in Runners |-> NotStarted]
    /\ migrations = [r \in Runners |->
                        GetMigrations(CHOOSE listing \in Perms(DOMAIN files) :
                                          TRUE).migrations]
    /\ appliedMigrations = [r \in Runners |-> <<>>]
    /\ startLedger = [r \in Runners |-> <<>>]
    /\ idx = [r \in Runners |-> 0]
    /\ queries = [r \in Runners |-> <<>>]
    /\ mergedSettings = [r \in Runners |-> <<>>]
    /\ qi = [r \in Runners |-> 0]
    /\ appliedList = [r \in Runners |-> <<>>]
    /\ logs = [r \in Runners |-> <<>>]
    /\ calls = [r \in Runners |-> SetupCalls]
    /\ inflight = [r \in Runners |-> 0]
    /\ result = [r \in Runners |-> Running]
    /\ InitParserStack

ApplyStep(r) ==
    \/ QueryDispatch(r)
    \/ QueryOk(r)
    \/ QueryFail(r)
    \/ SkipApplied(r)
    \/ BeginMigration(r)
    \/ ExecDispatch(r)
    \/ ExecOk(r)
    \/ ExecFail(r)
    \/ InsertDispatch(r)
    \/ InsertOk(r)
    \/ InsertFail(r)
    \/ LoopExit(r)
    \/ Close(r)

NextOverlap == \E r \in Runners : ApplyStep(r)

SpecOverlap == InitOverlap /\ [][NextOverlap]_vars

\* ---------------------------------------------------------------------------
\* Runs that overlap

\* the run read the ledger while it held no record at all
ReadEmpty(r) == HasRead(r) /\ startLedger[r] = <<>>

Completed(r) == pc[r] = "done" /\ result[r] = Ok

\* C29 nothing keeps two runs apart.  A run that read the ledger before any
\* insert dispatches every statement of every file and inserts one record per
\* version, whatever the other run does; when both runs did so and completed,
\* the ledger holds two records of each version.  Two records of one version
\* are there only when every run read the ledger before that version was
\* recorded, that is, only when the runs overlapped.
NoMutualExclusion ==
    /\ \A r \in Runners :
          (ReadEmpty(r) /\ Completed(r)) =>
              \A i \in Entries(r) :
                  /\ QueriesIn(calls[r], migrations[r][i].file)
                        = QueriesOf(files[migrations[r][i].file])
                  /\ Cardinality(InsertsOf(r, migrations[r][i].version)) = 1
    /\ (\A r \in Runners : ReadEmpty(r) /\ Completed(r)) =>
          \A f \in DOMAIN files :
              Cardinality(Recorded(MigrationOf(f).version)) = 2
    /\ \A i, j \in 1..Len(ledger) :
          (i # j /\ ledger[i].version = ledger[j].version) =>
              \A r \in Runners :
                  /\ HasRead(r)
                  /\ RowsAtRead(r, ledger[i].version) = {}
                  /\ InsertsOf(r, ledger[i].version) # {}

\* one pending migration, both runs read the empty ledger, both completed:
\* its statements were dispatched twice and it is recorded twice
NoMutualExclusionWitness ==
    /\ Cardinality(DOMAIN files) = 1
    /\ \A r \in Runners :
          /\ ReadEmpty(r)
          /\ Completed(r)
          /\ ExecsOf(r, migrations[r][1].file) # {}
    /\ Len(ledger) = 2
    /\ ledger[1].version = ledger[2].version

(***************************************************************************)
(* applyMigrations on a directory and a ledger that earlier runs and edits *)
(* have left: some files recorded, some of them edited since, some files   *)
(* added since, of lower or higher version than the recorded ones.         *)
(***************************************************************************)
\* ledgers that runs one after the other leave: no version twice
SequentialLedgers ==
    {rows \in StatusLedgers :
        \A i, j \in 1..Len(rows) : rows[i].version = rows[j].version => i = j}

InitLater ==
    /\ \E present \in SUBSET SpecFiles :
          /\ present # {}
          /\ files \in {dir \in [present -> UNION {ContentsOf(f) : f \in present}] :
                          \A f \in present : dir[f] \in ContentsOf(f)}
    /\ ledger \in SequentialLedgers
    /\ runs = 1
    /\ envSteps = 0
    /\ last = NoLast
    /\ pc = [r \in Runners |-> IF r = 1 THEN "applyMigrations" ELSE "idle"]
    /\ \E abortDivergent \in BOOLEAN :
          args = [r \in Runners |->
                     [abortDivergent |-> abortDivergent,
                      globalSettings |-> NoSettings]]
    /\ atStart = [r \in Runners |->
                     IF r = 1 THEN [repeat |-> FALSE, ledger |-> ledger]
                     ELSE NotStarted]
    /\ migrations = [r \in Runners |->
                        IF r = 1
                        THEN GetMigrations(CHOOSE listing \in Perms(DOMAIN files) :
                                               TRUE).migrations
                        ELSE <<>>]
    /\ appliedMigrations = [r \in Runners |-> <<>>]
    /\ startLedger = [r \in Runners |-> <<>>]
    /\ idx = [r \in Runners |-> 0]
    /\ queries = [r \in Runners |-> <<>>]
    /\ mergedSettings = [r \in Runners |-> <<>>]
    /\ qi = [r \in Runners |-> 0]
    /\ appliedList = [r \in Runners |-> <<>>]
    /\ logs = [r \in Runners |-> <<>>]
    /\ calls = [r \in Runners |-> IF r = 1 THEN SetupCalls ELSE <<>>]
    /\ inflight = [r \in Runners |-> 0]
    /\ result = [r \in Runners |-> Running]
    /\ InitParserStack

NextLater ==
    \/ QueryDispatch(1)
    \/ QueryOk(1)
    \/ DeletedMigration(1)
    \/ QueryFail(1)
    \/ SkipApplied(1)
    \/ DivergentAbort(1)
    \/ DivergentWarn(1)
    \/ BeginMigration(1)
    \/ ExecDispatch(1)
    \/ ExecOk(1)
    \/ ExecFail(1)
    \/ InsertDispatch(1)
    \/ InsertOk(1)
    \/ InsertFail(1)
    \/ LoopExit(1)
    \/ Close(1)

SpecLater == InitLater /\ [][NextLater]_vars

\* ---------------------------------------------------------------------------
\* When a divergence is detected

DivergenceFailed(r) ==
    /\ Finished(r)
    /\ result[r].status = "error"
    /\ result[r].error.kind = "DivergentMigration"

\* C30 (as the code has it) with abortDivergent on, a record that differs
\* from its file is detected when the loop reaches its catalog entry: the
\* run fails there, having dispatched every statement and inserted the record
\* of each pending migration of lower version, and nothing of the divergent
\* entry or of a later one; nothing at all has been executed only when no
\* pending migration comes before the first divergent entry
DivergenceDetectedInOrder ==
    \A r \in Runners :
        DivergenceFailed(r) =>
            /\ args[r].abortDivergent
            /\ idx[r] \in Entries(r)
            /\ Divergent(r, idx[r])
            /\ \A i \in 1..idx[r] - 1 :
                  /\ ~Divergent(r, i)
                  /\ Pending(r, i) =>
                        /\ QueriesIn(calls[r], migrations[r][i].file)
                              = QueriesOf(files[migrations[r][i].file])
                        /\ Cardinality(InsertsOf(r, migrations[r][i].version)) = 1
                        /\ Cardinality(Recorded(migrations[r][i].version)) = 1
                  /\ ~Pending(r, i) =>
                        /\ ExecsOf(r, migrations[r][i].file) = {}
                        /\ InsertsOf(r, migrations[r][i].version) = {}
            /\ \A i \in idx[r]..Len(migrations[r]) :
                  /\ ExecsOf(r, migrations[r][i].file) = {}
                  /\ InsertsOf(r, migrations[r][i].version) = {}
            /\ (ExecPositions(r) = {} /\ InsertPositions(r) = {})
                  <=> \A i \in 1..idx[r] - 1 : ~Pending(r, i)

\* C30 (as stated) with abortDivergent on, a run that read a ledger holding a
\* record that differs from its file dispatches no statement and inserts no
\* record, whatever the versions of the pending migrations
DivergenceBeforeExecution ==
    \A r \in Runners :
        (args[r].abortDivergent /\ HasRead(r)
            /\ \E i \in Entries(r) : Divergent(r, i)) =>
            /\ ExecPositions(r) = {}
            /\ InsertPositions(r) = {}

\* a pending migration of lower version was executed and recorded before
\* the run failed at the divergent one
DivergenceDetectedInOrderWitness ==
    \E r \in Runners :
        /\ DivergenceFailed(r)
        /\ pc[r] = "done"
        /\ \E i \in 1..idx[r] - 1 :
              /\ Pending(r, i)
              /\ migrations[r][i].version < migrations[r][idx[r]].version
              /\ InsertsOf(r, migrations[r][i].version) # {}
              /\ Recorded(migrations[r][i].version) # {}

\* ---------------------------------------------------------------------------
\* The ledger insert fails

InsertFailed(r) ==
    /\ Finished(r)
    /\ result[r] = Thrown([kind |-> "CantInsert"])

\* the position of the last insert the run dispatched
LastInsert(r) ==
    CHOOSE p \in InsertPositions(r) : \A q \in InsertPositions(r) : q <= p

\* C31 when the insert of a migration's record fails after all its statements
\* succeeded, the run fails at once: every statement of the file was
\* dispatched, nothing of a later migration is dispatched, nothing but the
\* close follows the failed insert, and the ledger holds no record of the
\* version.  A run that reads a ledger without a record of a version, and
\* gets past that catalog entry, dispatches all the statements of its file:
\* so does the run that follows the failure.
InsertFailureLeavesPending ==
    \A r \in Runners :
        /\ InsertFailed(r) =>
              /\ InsertPositions(r) # {}
              /\ calls[r][LastInsert(r)].row.version = Current(r).version
              /\ QueriesIn(calls[r], Current(r).file) = queries[r]
              /\ \A i \in After(r, LastInsert(r)) : calls[r][i].op = "close"
              /\ \A i \in idx[r] + 1..Len(migrations[r]) :
                    /\ ExecsOf(r, migrations[r][i].file) = {}
                    /\ InsertsOf(r, migrations[r][i].version) = {}
              /\ Recorded(Current(r).version) = {}
        /\ HasRead(r) =>
              \A i \in 1..idx[r] - 1 :
                  (i \in Entries(r) /\ Pending(r, i)) =>
                      QueriesIn(calls[r], migrations[r][i].file)
                         = QueriesOf(files[migrations[r][i].file])

\* the insert of the first migration fails; two more were waiting
InsertFailureLeavesPendingWitness ==
    \E r \in Runners :
        /\ InsertFailed(r)
        /\ pc[r] = "done"
        /\ idx[r] = 1
        /\ Len(migrations[r]) = 3
        /\ ledger = <<>>

(***************************************************************************)
(* applyMigrations over files of several kinds: with and without SET       *)
(* lines, and with no statement at all.  The ledger is empty, or it holds  *)
(* what a complete run over the same files has left.                       *)
(***************************************************************************)
EmptyContent == <<>>

\* -- c
CommentOnly == <<"-", "-", " ", "c", "\n">>

\* SET c = 9;
SetOnly == <<"S", "E", "T", " ", "c", " ", "=", " ", "9", ";", "\n">>

NoStatementContents == {EmptyContent, CommentOnly, SetOnly}

VariedContents == {ContentA, ContentB} \cup NoStatementContents

\* the records a complete run over the catalog leaves
FullLedger(catalog, dir) ==
    [i \in 1..Len(catalog) |->
        LedgerRow(catalog[i], computeChecksum(dir[catalog[i].file]))]

InitVaried ==
    /\ files \in [SpecFiles -> VariedContents]
    /\ ledger \in {<<>>, FullLedger(FullCatalog, files)}
    /\ runs = 1
    /\ envSteps = 0
    /\ last = NoLast
    /\ pc = [r \in Runners |-> IF r = 1 THEN "applyMigrations" ELSE "idle"]
    /\ \E globalSettings \in GlobalSettingsPool :
          args = [r \in Runners |->
                     [abortDivergent |-> TRUE, globalSettings |-> globalSettings]]
    /\ atStart = [r \in Runners |->
                     IF r = 1 THEN [repeat |-> FALSE, ledger |-> ledger]
                     ELSE NotStarted]
    /\ migrations = [r \in Runners |-> IF r = 1 THEN FullCatalog ELSE <<>>]
    /\ appliedMigrations = [r \in Runners |-> <<>>]
    /\ startLedger = [r \in Runners |-> <<>>]
    /\ idx = [r \in Runners |-> 0]
    /\ queries = [r \in Runners |-> <<>>]
    /\ mergedSettings = [r \in Runners |-> <<>>]
    /\ qi = [r \in Runners |-> 0]
    /\ appliedList = [r \in Runners |-> <<>>]
    /\ logs = [r \in Runners |-> <<>>]
    /\ calls = [r \in Runners |-> IF r = 1 THEN SetupCalls ELSE <<>>]
    /\ inflight = [r \in Runners |-> 0]
    /\ result = [r \in Runners |-> Running]
    /\ InitParserStack

NextVaried ==
    \/ QueryDispatch(1)
    \/ QueryOk(1)
    \/ QueryFail(1)
    \/ SkipApplied(1)
    \/ BeginMigration(1)
    \/ ExecDispatch(1)
    \/ ExecOk(1)
    \/ ExecFail(1)
    \/ InsertDispatch(1)
    \/ InsertOk(1)
    \/ InsertFail(1)
    \/ LoopExit(1)
    \/ Close(1)

SpecVaried == InitVaried /\ [][NextVaried]_vars

\* ---------------------------------------------------------------------------
\* A migration with no statement

NoStatements(r, i) == files[migrations[r][i].file] \in NoStatementContents

\* the loop has gone past catalog entry i
Passed(r, i) == HasRead(r) /\ i \in 1..idx[r] - 1 /\ i \in Entries(r)

\* C32 a pending migration whose file is empty, holds only a comment or
\* holds only SET lines causes no exec call, and is recorded and counted as
\* applied all the same; a run that finds its record dispatches nothing for
\* it and does not record it again
EmptyMigrationRecorded ==
    \A r \in Runners : \A i \in Entries(r) :
        NoStatements(r, i) =>
            /\ ExecsOf(r, migrations[r][i].file) = {}
            /\ (Passed(r, i) /\ Pending(r, i)) =>
                  /\ Cardinality(InsertsOf(r, migrations[r][i].version)) = 1
                  /\ Cardinality(Recorded(migrations[r][i].version)) = 1
                  /\ \E k \in 1..Len(appliedList[r]) :
                        appliedList[r][k] = migrations[r][i].file
            /\ (HasRead(r) /\ ~Pending(r, i)) =>
                  /\ InsertsOf(r, migrations[r][i].version) = {}
                  /\ \A k \in 1..Len(appliedList[r]) :
                        appliedList[r][k] # migrations[r][i].file

\* a run over an empty file, a comment and a SET line only: three records,
\* three migrations counted, not one exec
EmptyMigrationRecordedWitness ==
    \E r \in Runners :
        /\ pc[r] = "done"
        /\ result[r] = Ok
        /\ startLedger[r] = <<>>
        /\ {files[f] : f \in DOMAIN files} = NoStatementContents
        /\ ExecPositions(r) = {}
        /\ Len(ledger) = Len(migrations[r])
        /\ LastLog(r) = Log("info", "SuccessfullyApplied", Len(migrations[r]))

\* ---------------------------------------------------------------------------
\* Pending versions below recorded ones

\* the files of the catalog entries from i on that had no record when the
\* ledger was read, in catalog order
RECURSIVE PendingFrom(_, _)
PendingFrom(r, i) ==
    IF i > Len(migrations[r]) THEN <<>>
    ELSE (IF Pending(r, i) THEN <<migrations[r][i].file>> ELSE <<>>)
            \o PendingFrom(r, i + 1)

\* the highest version the ledger held when the run read it
HighestAtRead(r) ==
    CHOOSE v \in Versions(startLedger[r]) :
        \A w \in Versions(startLedger[r]) : w <= v

\* C33 a run applies exactly the catalog entries that had no record when it
\* read the ledger, in ascending version order, whatever versions the ledger
\* holds: an entry the loop has passed was executed and recorded when it was
\* pending, and left alone when it was not; the records of the run are in
\* ascending version order; a run that completes has applied all the pending
\* entries, those below the highest recorded version included
OutOfOrderApplied ==
    \A r \in Runners :
        HasRead(r) =>
            /\ \A i \in Entries(r) :
                  /\ (Passed(r, i) /\ Pending(r, i)) =>
                        /\ QueriesIn(calls[r], migrations[r][i].file)
                              = QueriesOf(files[migrations[r][i].file])
                        /\ Cardinality(InsertsOf(r, migrations[r][i].version)) = 1
                        /\ Cardinality(Recorded(migrations[r][i].version)) = 1
                  /\ ~Pending(r, i) =>
                        /\ ExecsOf(r, migrations[r][i].file) = {}
                        /\ InsertsOf(r, migrations[r][i].version) = {}
            /\ \A a, b \in 1..Len(InsertedInRun(r)) :
                  a < b => InsertedInRun(r)[a].version < InsertedInRun(r)[b].version
            /\ FullPass(r) => appliedList[r] = PendingFrom(r, 1)

\* a completed run applied a migration of a version below one the ledger
\* already held
OutOfOrderAppliedWitness ==
    \E r \in Runners :
        /\ FullPass(r)
        /\ pc[r] = "done"
        /\ startLedger[r] # <<>>
        /\ \E i \in Entries(r) :
              /\ Pending(r, i)
              /\ migrations[r][i].version < HighestAtRead(r)
              /\ Recorded(migrations[r][i].version) # {}
              /\ appliedList[r] = <<migrations[r][i].file>>

\* ---------------------------------------------------------------------------
\* Settings of one migration and of the next

\* the settings the SET lines of a content assign
OwnSettings(content) ==
    IF content = ContentB THEN (<<"a">> :> <<"2">>) @@ (<<"b">> :> <<"3">>)
    ELSE IF content = SetOnly THEN <<"c">> :> <<"9">>
    ELSE <<>>

\* C34 every statement is dispatched with the global settings overlaid with
\* the SET settings of its own file and of no other: a key that only another
\* file of the run sets is passed with the caller's value or not at all, and
\* a statement of a file without SET lines is passed the caller's mapping
\* as it was given
SettingsStayLocal ==
    \A r \in Runners : \A p \in ExecPositions(r) :
        LET used == calls[r][p].settings
            own == OwnSettings(files[calls[r][p].file])
            global == args[r].globalSettings
        IN  /\ global \in GlobalSettingsPool
            /\ used = MergeSettings(global, own)
            /\ own = <<>> => used = global
            /\ \A f \in DOMAIN files \ {calls[r][p].file} :
                  \A k \in DOMAIN OwnSettings(files[f]) \ DOMAIN own :
                      IF k \in DOMAIN global
                      THEN used[k] = global[k]
                      ELSE k \notin DOMAIN used

\* after a migration that sets a and b, and one that sets c, were applied, a
\* statement of a file without SET lines goes out with the caller's a and c
SettingsStayLocalWitness ==
    \E r \in Runners : \E p \in ExecPositions(r) :
        /\ args[r].globalSettings = (<<"a">> :> <<"1">>) @@ (<<"c">> :> <<"7">>)
        /\ files[calls[r][p].file] = ContentA
        /\ calls[r][p].settings = args[r].globalSettings
        /\ \E i, j \in InsertPositions(r) :
              /\ i < p
              /\ j < p
              /\ files[calls[r][i].row.migration_name] = ContentB
              /\ files[calls[r][j].row.migration_name] = SetOnly

\* ---------------------------------------------------------------------------
\* The text of a line comment

\* the file begins with a line comment
LeadingLineComment(content) == PairAt(content, 1, "-", "-")

\* where the first line of content ends: the index of its line feed, or one
\* past the end
FirstLineEnd(content) ==
    LET feeds == {i \in DOMAIN content : content[i] = "\n"}
    IN  IF feeds = {} THEN Len(content) + 1 ELSE Min(feeds)

\* the file with the text of its leading line comment deleted
LeadingCommentEmptied(content) ==
    <<"-", "-">> \o SubSeq(content, FirstLineEnd(content), Len(content))

\* C35 the text of a line comment is inert: a file that begins with a line
\* comment is parsed into the statements of the same file with the text of
\* that comment deleted, whatever quote or comment marker the text holds
LineCommentInert ==
    \A r \in Runners :
        (HasParsed(r) /\ LeadingLineComment(CurrentContent(r))) =>
            LET plain == sqlQueries(LeadingCommentEmptied(CurrentContent(r)))
            IN  /\ plain.ok
                /\ queries[r] = plain.value

\* ---------------------------------------------------------------------------
\* A single quote character inside a block comment

\* the index of the first */ of content from index 3 on, or one past the end
FirstEnd(content) ==
    LET ends == {k \in 3..Len(content) : PairAt(content, k, "*", "/")}
    IN  IF ends = {} THEN Len(content) + 1 ELSE Min(ends)

\* the file begins with a block comment whose text holds one quote character
\* and no more
UnpairedQuoteComment(content) ==
    /\ PairAt(content, 1, "/", "*")
    /\ FirstEnd(content) <= Len(content)
    /\ Cardinality({k \in 3..FirstEnd(content) - 1 : content[k] \in Quotes}) = 1

\* C36 a block comment whose text holds a single, unpaired quote character
\* is removed up to its */, and the statements of the file are those of the
\* text that follows the comment
UnpairedQuoteRemoved ==
    \A r \in Runners :
        (HasParsed(r) /\ UnpairedQuoteComment(CurrentContent(r))) =>
            LET rest == SubSeq(CurrentContent(r), FirstEnd(CurrentContent(r)) + 2,
                               Len(CurrentContent(r)))
                parsed == sqlQueries(rest)
            IN  /\ parsed.ok
                /\ queries[r] = parsed.value

\* ---------------------------------------------------------------------------
\* Statements that share a line with a SET assignment

\* the segment is a SET assignment, in either case, or the bare keyword
IsSetStatement(segment) ==
    \/ StartsWith(toUpperCase(segment), SET_PREFIX)
    \/ toUpperCase(segment) = <<"S", "E", "T">>

\* C37 no statement is lost to the removal of SET lines: in a file without
\* comments, every text between two ; outside literals that is not a SET
\* assignment is one of the statements of the file, also when it stands on
\* the line of a SET assignment
NoStatementLostToSet ==
    \A r \in Runners :
        (HasParsed(r) /\ NoMarkers(CurrentContent(r))) =>
            LET segments == Segments(CurrentContent(r), 1)
            IN  \A n \in DOMAIN segments :
                    ~IsSetStatement(segments[n]) =>
                        \E m \in DOMAIN queries[r] : queries[r][m] = segments[n]

(***************************************************************************)
(* Versions at full width. Number.parseInt returns a double, which holds   *)
(* every integer of up to fifteen digits exactly; the _migrations table    *)
(* stores the version in a UInt32 column. A number is kept here as two     *)
(* 16-bit limbs, value = hi * 2^16 + lo, so that a version beyond the      *)
(* column's range keeps its value and the column's 32 bits are the low     *)
(* 16 bits of hi and all of lo.                                            *)
(***************************************************************************)
\* 2^16: UInt32 is two limbs of this size
UInt32Half == 65536

WideZero == [hi |-> 0, lo |-> 0]

\* the value of a run of digits, most significant first, at full width
RECURSIVE WideDigitsValue(_)
WideDigitsValue(s) ==
    IF s = <<>> THEN WideZero
    ELSE LET v == WideDigitsValue(SubSeq(s, 1, Len(s) - 1))
             low == 10 * v.lo + DigitValue(s[Len(s)])
         IN  [hi |-> 10 * v.hi + (low \div UInt32Half),
              lo |-> low % UInt32Half]

\* Number.parseInt(s, 10) at full width; the sign is kept apart
WideParseInt(s) ==
    LET t == SkipSpace(s)
        neg == t # <<>> /\ Head(t) = "-"
        u == IF t # <<>> /\ Head(t) \in {"-", "+"} THEN Tail(t) ELSE t
        ds == DigitPrefix(u)
    IN  IF ds = <<>> THEN [isNaN |-> TRUE, negative |-> FALSE, value |-> WideZero]
        ELSE [isNaN |-> FALSE, negative |-> neg /\ WideDigitsValue(ds) # WideZero,
              value |-> WideDigitsValue(ds)]

\* m1.version - m2.version <= 0
WideLeq(a, b) == a.hi < b.hi \/ (a.hi = b.hi /\ a.lo <= b.lo)

\* the values a UInt32 column can hold
FitsUInt32(v) == v.hi < UInt32Half

\* the value modulo 2^32
WrapUInt32(v) == [hi |-> v.hi % UInt32Half, lo |-> v.lo]

RECURSIVE WideInsertByVersion(_, _)
WideInsertByVersion(sorted, m) ==
    IF sorted = <<>> THEN <<m>>
    ELSE IF WideLeq(Head(sorted).version, m.version)
         THEN <<Head(sorted)>> \o WideInsertByVersion(Tail(sorted), m)
         ELSE <<m>> \o sorted

RECURSIVE WideSortByVersion(_)
WideSortByVersion(ms) ==
    IF ms = <<>> THEN <<>>
    ELSE WideInsertByVersion(WideSortByVersion(SubSeq(ms, 1, Len(ms) - 1)),
                             ms[Len(ms)])

\* the loop of getMigrations over the listing, versions at full width
RECURSIVE WideCollectMigrations(_, _)
WideCollectMigrations(listing, acc) ==
    IF listing = <<>> THEN [ok |-> TRUE, migrations |-> acc]
    ELSE LET file == Head(listing)
             versionString == SplitFirst(file, "_")
             version == WideParseInt(versionString)
         IN  IF ~EndsWith(file, DotSql)
             THEN WideCollectMigrations(Tail(listing), acc)
             ELSE IF versionString = <<>>
             THEN [ok |-> FALSE, error |-> InvalidName(file)]
             ELSE IF \/ version.isNaN
                     \/ version.negative
                     \/ ~VersionStringTest(versionString)
             THEN [ok |-> FALSE, error |-> InvalidName(file)]
             ELSE WideCollectMigrations(Tail(listing),
                                        Append(acc, [version |-> version.value,
                                                     file |-> file]))

\* getMigrations, versions at full width
WideGetMigrations(listing) ==
    LET collected == WideCollectMigrations(listing, <<>>)
    IN  IF ~collected.ok THEN collected
        ELSE IF Len(collected.migrations) = 0
        THEN [ok |-> FALSE, error |-> [kind |-> "NoMigrations"]]
        ELSE LET sorted == WideSortByVersion(collected.migrations)
             IN  IF DuplicateAt(sorted) # {}
                 THEN [ok |-> FALSE, error |-> [kind |-> "DuplicateVersion"]]
                 ELSE [ok |-> TRUE, migrations |-> sorted]

\* file names whose versions lie below, at and beyond the range of UInt32
WidePool ==
    { <<"1", "_", "a", ".", "s", "q", "l">>,
      <<"0", "1", "_", "b", ".", "s", "q", "l">>,
      <<"2", "_", "a", ".", "s", "q", "l">>,
      <<"6", "5", "5", "3", "6", "_", "a", ".", "s", "q", "l">>,
      <<"4", "2", "9", "4", "9", "6", "7", "2", "9", "5", "_", "a", ".", "s", "q", "l">>,
      <<"4", "2", "9", "4", "9", "6", "7", "2", "9", "6", "_", "a", ".", "s", "q", "l">>,
      <<"4", "2", "9", "4", "9", "6", "7", "2", "9", "7", "_", "a", ".", "s", "q", "l">>,
      <<"8", "5", "8", "9", "9", "3", "4", "5", "9", "4", "_", "a", ".", "s", "q", "l">>,
      <<"4", "x", "_", "a", ".", "s", "q", "l">>,
      <<"n", "o", "t", "e", "s", ".", "m", "d">> }

InitWide ==
    /\ \E present \in SUBSET WidePool :
          /\ Cardinality(present) <= MaxListing
          /\ files = [f \in present |-> ContentA]
    /\ ledger = <<>>
    /\ runs = 0
    /\ envSteps = 0
    /\ last = NoLast
    /\ InitRun

WideFrame ==
    UNCHANGED <<files, runs, envSteps, last, args, atStart, appliedMigrations,
                startLedger, queries, mergedSettings, qi, appliedList, logs,
                calls, inflight>>

\* getMigrations returns the catalog
WideGetMigrationsOk(r) ==
    /\ pc[r] = "idle"
    /\ \E listing \in Perms(DOMAIN files) :
          /\ WideGetMigrations(listing).ok
          /\ migrations' = Set(migrations, r, WideGetMigrations(listing).migrations)
    /\ idx' = Set(idx, r, 1)
    /\ pc' = Set(pc, r, "loop")
    /\ UNCHANGED <<ledger, result>>
    /\ WideFrame
    /\ UNCHANGED poolVars

\* getMigrations throws
WideGetMigrationsFail(r) ==
    /\ pc[r] = "idle"
    /\ \E listing \in Perms(DOMAIN files) :
          /\ ~WideGetMigrations(listing).ok
          /\ Fail(r, WideGetMigrations(listing).error)
    /\ UNCHANGED <<ledger, migrations, idx>>
    /\ WideFrame

\* recordMigration: the version fits the column and is stored as it is
WideInsertOk(r) ==
    /\ pc[r] = "loop"
    /\ idx[r] <= Len(migrations[r])
    /\ FitsUInt32(Current(r).version)
    /\ ledger' = Append(ledger, LedgerRow(Current(r), CurrentChecksum(r)))
    /\ idx' = Set(idx, r, idx[r] + 1)
    /\ UNCHANGED <<pc, migrations, result>>
    /\ WideFrame
    /\ UNCHANGED poolVars

\* recordMigration: the version is beyond the column's range and the server
\* keeps its low 32 bits
WideInsertWrapped(r) ==
    /\ pc[r] = "loop"
    /\ idx[r] <= Len(migrations[r])
    /\ ~FitsUInt32(Current(r).version)
    /\ ledger' = Append(ledger,
                        [LedgerRow(Current(r), CurrentChecksum(r))
                            EXCEPT !.version = WrapUInt32(Current(r).version)])
    /\ idx' = Set(idx, r, idx[r] + 1)
    /\ UNCHANGED <<pc, migrations, result>>
    /\ WideFrame
    /\ UNCHANGED poolVars

\* recordMigration: the version is beyond the column's range and the server
\* rejects the row
WideInsertFail(r) ==
    /\ pc[r] = "loop"
    /\ idx[r] <= Len(migrations[r])
    /\ ~FitsUInt32(Current(r).version)
    /\ Fail(r, [kind |-> "CantInsert"])
    /\ UNCHANGED <<ledger, migrations, idx>>
    /\ WideFrame

WideLoopExit(r) ==
    /\ pc[r] = "loop"
    /\ idx[r] > Len(migrations[r])
    /\ pc' = Set(pc, r, "done")
    /\ result' = Set(result, r, Ok)
    /\ UNCHANGED <<ledger, migrations, idx>>
    /\ WideFrame
    /\ UNCHANGED poolVars

NextWide ==
    \/ WideGetMigrationsOk(1)
    \/ WideGetMigrationsFail(1)
    \/ WideInsertOk(1)
    \/ WideInsertWrapped(1)
    \/ WideInsertFail(1)
    \/ WideLoopExit(1)

SpecWide == InitWide /\ [][NextWide]_vars

\* C38 Version range: every version getMigrations accepts is at most
\* 2^32 - 1; the version stored in the ledger's UInt32 column for a
\* migration equals the version parsed from its file name, and no two
\* distinct accepted versions are stored as the same ledger value.
VersionFitsColumn ==
    /\ \A i \in 1..Len(migrations[1]) : FitsUInt32(migrations[1][i].version)
    /\ \A k \in 1..Len(ledger) : ledger[k].version = migrations[1][k].version
    /\ \A j, k \in 1..Len(ledger) :
          j # k => ledger[j].version # ledger[k].version

(***************************************************************************)
(* The parser pool. sql-parse.ts keeps one ParserStack for the process;    *)
(* every scan acquires a parser from it and releases it in a finally       *)
(* block. The functions are synchronous, so calls of sqlQueries and        *)
(* sqlSets follow one another; within a call the scans nest: the scan for  *)
(* the end of a block comment runs inside removeBlockComments, and         *)
(* splitByDelimiter runs inside sqlSets while sqlSets holds its parser.    *)
(* A step is one turn of a loop over the characters.                       *)
(***************************************************************************)
\* ParserStack.maxSize
maxSize == 10

\* no parser: the frame of a function that holds none
NoParser == [id |-> 0, inString |-> FALSE, stringChar |-> "", escaped |-> FALSE]

Holds(frame) == frame.parser.id # 0

\* SqlParser.reset on an instance
Reset(parser) ==
    [id |-> parser.id, inString |-> FALSE, stringChar |-> "", escaped |-> FALSE]

\* a slip: the parser is handed out as it was released
acquireAsReleased(stack, created) ==
    IF stack = <<>>
    THEN [parser |-> [id |-> created + 1, inString |-> FALSE, stringChar |-> "",
                      escaped |-> FALSE],
          stack |-> stack, created |-> created + 1]
    ELSE [parser |-> stack[Len(stack)],
          stack |-> SubSeq(stack, 1, Len(stack) - 1), created |-> created]

\* ParserStack.acquire: the parser popped from the stack, or a new one,
\* reset; the stack after it
acquire(stack, created) ==
    IF stack = <<>>
    THEN [parser |-> [id |-> created + 1, inString |-> FALSE, stringChar |-> "",
                      escaped |-> FALSE],
          stack |-> stack, created |-> created + 1]
    ELSE [parser |-> Reset(stack[Len(stack)]),
          stack |-> SubSeq(stack, 1, Len(stack) - 1), created |-> created]

\* ParserStack.release: the stack after the parser is given back
release(stack, parser) ==
    IF Len(stack) < maxSize THEN Append(stack, parser) ELSE stack

\* the finally blocks an exception runs through, innermost first
RECURSIVE ReleaseAll(_, _)
ReleaseAll(stack, held) ==
    IF held = <<>> THEN stack
    ELSE ReleaseAll(release(stack, held[Len(held)].parser),
                    SubSeq(held, 1, Len(held) - 1))

HeldFrames(fs) == SelectSeq(fs, Holds)

\* the texts the functions are called with: a statement, a block comment,
\* an unterminated literal, a SET line, a block comment with an unpaired
\* quote
PoolContents ==
    { <<"a", ";">>,
      <<"/", "*", "c", "*", "/", "b">>,
      <<"'", "x">>,
      <<"S", "E", "T", " ", "k", "=", "1", ";", "j", "=", "2">>,
      <<"-", "-", "\n", "b">>,
      <<"/", "*", "'">> }

Frame(fn, content, parser) ==
    [fn |-> fn, stage |-> "start", content |-> content, i |-> 1,
     parser |-> parser, out |-> <<>>, lines |-> <<>>, ret |-> <<>>, steps |-> 0]

Top == frames[Len(frames)]
Below == SubSeq(frames, 1, Len(frames) - 1)
Base == frames[1]

\* the frames with the top one replaced
WithTop(frame) == Append(Below, frame)

PoolFrame ==
    UNCHANGED <<files, ledger, runs, envSteps, last, pc, args, atStart,
                migrations, appliedMigrations, startLedger, idx, queries,
                mergedSettings, qi, appliedList, logs, calls, inflight, result>>

\* the bookkeeping of one acquire; dirty: a parser left inside a literal
\* by a call that threw has been handed out again
Acquired(got) ==
    /\ parserStack' = got.stack
    /\ poolLog' = [poolLog EXCEPT
                      !.created = got.created,
                      !.acquired = @ + 1,
                      !.dirty = @ \/ (/\ poolLog.threw
                                      /\ parserStack # <<>>
                                      /\ parserStack[Len(parserStack)].inString)]

\* the bookkeeping of one release
Released(parser) ==
    /\ parserStack' = release(parserStack, parser)
    /\ poolLog' = [poolLog EXCEPT !.released = @ + 1,
                                  !.threw = @ /\ frames' # <<>>]

\* a caller calls sqlQueries or sqlSets
PoolCall ==
    /\ frames = <<>>
    /\ poolLog.calls < MaxRuns
    /\ \E fn \in {"sqlQueries", "sqlSets"}, content \in PoolContents :
          frames' = <<Frame(fn, content, NoParser)>>
    /\ poolLog' = [poolLog EXCEPT !.calls = @ + 1]
    /\ UNCHANGED parserStack
    /\ PoolFrame

\* removeBlockComments(content) is entered
BlockEnter ==
    /\ Len(frames) = 1
    /\ Base.stage = "start"
    /\ LET got == acquire(parserStack, poolLog.created)
       IN  /\ frames' = <<[Base EXCEPT !.stage = "block"],
                          Frame("removeBlockComments", Base.content, got.parser)>>
           /\ Acquired(got)
    /\ PoolFrame

\* one turn of the loop of removeBlockComments; at a comment opener outside
\* a literal the scan for its end starts with a parser of its own
BlockStep ==
    /\ frames # <<>>
    /\ Top.fn = "removeBlockComments"
    /\ Top.i <= Len(Top.content)
    /\ LET content == Top.content
           i == Top.i
           step == processChar(Top.parser, content[i], content, i)
           stepped == [Top EXCEPT !.parser = step.parser, !.steps = @ + 1]
       IN  IF step.result
           THEN /\ frames' = WithTop([stepped EXCEPT !.i = i + 1,
                                                     !.out = Append(@, content[i])])
                /\ UNCHANGED <<parserStack, poolLog>>
           ELSE IF content[i] = "/" /\ CharAt(content, i + 1) = "*"
           THEN LET got == acquire(parserStack, poolLog.created)
                IN  /\ frames' = Append(WithTop(stepped),
                                        [Frame("comment", content, got.parser)
                                            EXCEPT !.i = i + 2])
                    /\ Acquired(got)
           ELSE /\ frames' = WithTop([stepped EXCEPT !.i = i + 1,
                                                     !.out = Append(@, content[i])])
                /\ UNCHANGED <<parserStack, poolLog>>
    /\ PoolFrame

\* one turn of the scan for the end of a block comment: at the terminator
\* the comment's parser is released and the outer loop goes on after it
CommentStep ==
    /\ frames # <<>>
    /\ Top.fn = "comment"
    /\ Top.i <= Len(Top.content)
    /\ LET content == Top.content
           j == Top.i
           after == processChar(Top.parser, content[j], content, j).parser
           outer == frames[Len(frames) - 1]
       IN  IF ~after.inString /\ content[j] = "*" /\ CharAt(content, j + 1) = "/"
           THEN /\ frames' = Append(SubSeq(frames, 1, Len(frames) - 2),
                                    [outer EXCEPT !.i = j + 2])
                /\ Released(after)
           ELSE /\ frames' = WithTop([Top EXCEPT !.parser = after, !.i = j + 1,
                                                 !.steps = @ + 1])
                /\ UNCHANGED <<parserStack, poolLog>>
    /\ PoolFrame

\* the comment has no end: its parser is released and the outer loop is left
CommentUnterminated ==
    /\ frames # <<>>
    /\ Top.fn = "comment"
    /\ Top.i > Len(Top.content)
    /\ LET outer == frames[Len(frames) - 1]
       IN  frames' = Append(SubSeq(frames, 1, Len(frames) - 2),
                            [outer EXCEPT !.i = Len(outer.content) + 1])
    /\ Released(Top.parser)
    /\ PoolFrame

\* removeBlockComments returns
BlockReturn ==
    /\ frames # <<>>
    /\ Top.fn = "removeBlockComments"
    /\ Top.i > Len(Top.content)
    /\ frames' = <<[Base EXCEPT !.stage = "blockDone", !.ret = Top.out]>>
    /\ Released(Top.parser)
    /\ PoolFrame

\* removeLineComments is entered with what removeBlockComments returned;
\* the parser is reset at the start of every line
LineEnter ==
    /\ Len(frames) = 1
    /\ Base.stage = "blockDone"
    /\ LET got == acquire(parserStack, poolLog.created)
           lines == SplitLines(Base.ret, <<>>)
       IN  /\ frames' = <<[Base EXCEPT !.stage = "line"],
                          [Frame("removeLineComments", Head(lines), Reset(got.parser))
                              EXCEPT !.lines = lines]>>
           /\ Acquired(got)
    /\ PoolFrame

\* one turn of the loop over a line
LineStep ==
    /\ frames # <<>>
    /\ Top.fn = "removeLineComments"
    /\ Top.i <= Len(Top.content)
    /\ LET line == Top.content
           i == Top.i
           step == processChar(Top.parser, line[i], line, i)
           stepped == [Top EXCEPT !.parser = step.parser, !.steps = @ + 1]
           kept == [stepped EXCEPT !.i = i + 1, !.out = Append(@, line[i])]
           left == [stepped EXCEPT !.i = Len(line) + 1]
       IN  frames' = WithTop(IF step.result THEN kept
                             ELSE IF line[i] = "-" /\ CharAt(line, i + 1) = "-"
                             THEN left
                             ELSE IF line[i] = "#" /\ Trim(Top.out) = <<>>
                             THEN left
                             ELSE kept)
    /\ UNCHANGED <<parserStack, poolLog>>
    /\ PoolFrame

\* the line ends outside a literal and is not the last one
LineNext ==
    /\ frames # <<>>
    /\ Top.fn = "removeLineComments"
    /\ Top.i > Len(Top.content)
    /\ ~Top.parser.inString
    /\ Len(Top.lines) > 1
    /\ frames' = WithTop([Top EXCEPT !.lines = Tail(@),
                                     !.content = Top.lines[2],
                                     !.i = 1, !.out = <<>>, !.steps = 0,
                                     !.parser = Reset(@)])
    /\ UNCHANGED <<parserStack, poolLog>>
    /\ PoolFrame

\* removeLineComments returns
LineReturn ==
    /\ frames # <<>>
    /\ Top.fn = "removeLineComments"
    /\ Top.i > Len(Top.content)
    /\ ~Top.parser.inString
    /\ Len(Top.lines) = 1
    /\ frames' = <<[Base EXCEPT !.stage = "lineDone",
                                !.ret = removeLineComments(Base.ret).value]>>
    /\ Released(Top.parser)
    /\ PoolFrame

\* a line of removeLineComments, or the text of splitByDelimiter, ends
\* inside a literal: the error passes every finally block on its way out
ScanThrow ==
    /\ frames # <<>>
    /\ Top.fn \in {"removeLineComments", "splitByDelimiter"}
    /\ Top.i > Len(Top.content)
    /\ Top.parser.inString
    /\ frames' = <<>>
    /\ parserStack' = ReleaseAll(parserStack, HeldFrames(frames))
    /\ poolLog' = [poolLog EXCEPT !.released = @ + Len(HeldFrames(frames)),
                                  !.threw = TRUE]
    /\ PoolFrame

\* what sqlQueries hands to splitByDelimiter
Cleaned(text) == Trim(CollapseSpace(RemoveSetLines(text, 1)))

\* sqlQueries, sqlSets: nothing is left to split
PoolReturnEmpty ==
    /\ Len(frames) = 1
    /\ Base.stage = "lineDone"
    /\ IF Base.fn = "sqlQueries" THEN Cleaned(Base.ret) = <<>>
       ELSE SetStatements(SplitLines(Base.ret, <<>>)) = <<>>
    /\ frames' = <<>>
    /\ poolLog' = [poolLog EXCEPT !.threw = FALSE]
    /\ UNCHANGED parserStack
    /\ PoolFrame

\* sqlSets acquires its parser before it calls splitByDelimiter
SetsAcquire ==
    /\ Len(frames) = 1
    /\ Base.fn = "sqlSets"
    /\ Base.stage = "lineDone"
    /\ SetStatements(SplitLines(Base.ret, <<>>)) # <<>>
    /\ LET got == acquire(parserStack, poolLog.created)
       IN  /\ frames' = <<[Base EXCEPT !.stage = "held", !.parser = got.parser]>>
           /\ Acquired(got)
    /\ PoolFrame

\* splitByDelimiter is entered
SplitEnter ==
    /\ Len(frames) = 1
    /\ \/ Base.fn = "sqlQueries" /\ Base.stage = "lineDone"
          /\ Cleaned(Base.ret) # <<>>
       \/ Base.fn = "sqlSets" /\ Base.stage = "held"
    /\ LET got == acquire(parserStack, poolLog.created)
           text == IF Base.fn = "sqlQueries" THEN Cleaned(Base.ret)
                   ELSE Join(SetStatements(SplitLines(Base.ret, <<>>)), <<" ">>)
       IN  /\ frames' = <<[Base EXCEPT !.stage = "split"],
                          Frame("splitByDelimiter", text, got.parser)>>
           /\ Acquired(got)
    /\ PoolFrame

\* one turn of the loop of splitByDelimiter
SplitStep ==
    /\ frames # <<>>
    /\ Top.fn = "splitByDelimiter"
    /\ Top.i <= Len(Top.content)
    /\ LET step == processChar(Top.parser, Top.content[Top.i], Top.content, Top.i)
       IN  frames' = WithTop([Top EXCEPT !.parser = step.parser, !.i = @ + 1,
                                         !.steps = @ + 1])
    /\ UNCHANGED <<parserStack, poolLog>>
    /\ PoolFrame

\* splitByDelimiter returns: sqlQueries returns with it, sqlSets goes on to
\* the parts, its parser reset at the start of each
SplitReturn ==
    /\ frames # <<>>
    /\ Top.fn = "splitByDelimiter"
    /\ Top.i > Len(Top.content)
    /\ ~Top.parser.inString
    /\ LET parts == splitByDelimiter(Top.content, ";").value
       IN  frames' = IF Base.fn = "sqlQueries" THEN <<>>
                     ELSE <<[Base EXCEPT !.stage = "parts", !.lines = parts,
                                         !.content = IF parts = <<>> THEN <<>>
                                                     ELSE Head(parts),
                                         !.i = 1, !.steps = 0,
                                         !.parser = Reset(@)]>>
    /\ Released(Top.parser)
    /\ PoolFrame

\* sqlSets: one turn of the search of a part for its = sign
PartStep ==
    /\ Len(frames) = 1
    /\ Base.stage = "parts"
    /\ Base.lines # <<>>
    /\ Base.i <= Len(Base.content)
    /\ LET part == Base.content
           i == Base.i
           step == processChar(Base.parser, part[i], part, i)
           stepped == [Base EXCEPT !.parser = step.parser, !.steps = @ + 1]
       IN  frames' = <<IF ~step.result /\ part[i] = "="
                       THEN [stepped EXCEPT !.i = Len(part) + 1]
                       ELSE [stepped EXCEPT !.i = i + 1]>>
    /\ UNCHANGED <<parserStack, poolLog>>
    /\ PoolFrame

\* sqlSets: the next part
PartNext ==
    /\ Len(frames) = 1
    /\ Base.stage = "parts"
    /\ Len(Base.lines) > 1
    /\ Base.i > Len(Base.content)
    /\ frames' = <<[Base EXCEPT !.lines = Tail(@), !.content = Base.lines[2],
                                !.i = 1, !.steps = 0, !.parser = Reset(@)]>>
    /\ UNCHANGED <<parserStack, poolLog>>
    /\ PoolFrame

\* sqlSets returns after the last part
SetsReturn ==
    /\ Len(frames) = 1
    /\ Base.stage = "parts"
    /\ Len(Base.lines) <= 1
    /\ Base.i > Len(Base.content)
    /\ frames' = <<>>
    /\ Released(Base.parser)
    /\ PoolFrame

InitPool ==
    /\ files = <<>>
    /\ ledger = <<>>
    /\ runs = 0
    /\ envSteps = 0
    /\ last = NoLast
    /\ InitRun

NextPool ==
    \/ PoolCall
    \/ BlockEnter
    \/ BlockStep
    \/ CommentStep
    \/ CommentUnterminated
    \/ BlockReturn
    \/ LineEnter
    \/ LineStep
    \/ LineNext
    \/ LineReturn
    \/ ScanThrow
    \/ PoolReturnEmpty
    \/ SetsAcquire
    \/ SplitEnter
    \/ SplitStep
    \/ SplitReturn
    \/ PartStep
    \/ PartNext
    \/ SetsReturn

SpecPool == InitPool /\ [][NextPool]_vars

(***************************************************************************)
(* The parser pool: properties.                                            *)
(***************************************************************************)
\* the parser has processed no character since it was acquired or reset
Fresh(frame) == Holds(frame) /\ frame.steps = 0

InitialState(parser) ==
    ~parser.inString /\ ~parser.escaped /\ parser.stringChar = ""

HeldIds == {frames[k].parser.id : k \in {n \in 1..Len(frames) : Holds(frames[n])}}

PooledIds == {parserStack[k].id : k \in 1..Len(parserStack)}

\* C39 Parser pool safety: a parser obtained from the pool starts in the
\* initial state (not inside a string, escape flag clear), also when the
\* scan that used it before ended by throwing inside a string; the parsers
\* held by an outer scan and by a scan nested in it are distinct instances;
\* every acquired parser is released exactly once, on error paths too, so
\* that no instance is held or pooled twice and every instance not held is
\* back in the pool; the pool never holds more than 10 parsers.
ParserPoolSafe ==
    /\ \A k \in 1..Len(frames) :
          Fresh(frames[k]) => InitialState(frames[k].parser)
    /\ Cardinality(HeldIds) = Len(HeldFrames(frames))
    /\ Cardinality(PooledIds) = Len(parserStack)
    /\ HeldIds \cap PooledIds = {}
    /\ poolLog.acquired - poolLog.released = Len(HeldFrames(frames))
    /\ Len(parserStack) + Len(HeldFrames(frames)) = poolLog.created
    /\ Len(parserStack) <= maxSize

\* a scan and the scan nested in it hold their parsers, the outer one
\* handed out again after a call that threw inside a string literal
ParserPoolSafeWitness ==
    /\ poolLog.dirty
    /\ Len(HeldFrames(frames)) = 2
    /\ Fresh(Top)

=============================================================================
